---- MODULE Spec2Model ----
(***************************************************************************)
(* The secret rotation engine (RotationManager) and its JWT specialization *)
(* (JWTManager) of token-toolkit, as a state machine.                       *)
(*                                                                         *)
(* Time is a discrete clock; a Secret is a heap object (a reference into   *)
(* `heap`) because the engine, its snapshots and its callers share         *)
(* pointers to the same Secret and RotateSecret mutates Active in place.   *)
(***************************************************************************)
EXTENDS Integers, Sequences, FiniteSets, TLC

(* ------------------------------ bounds --------------------------------- *)
\* last instant of the discrete clock
MaxTime == 2
\* number of values the generator hands out to RotateSecret calls in one run
MaxSecrets == 1
\* largest gracePeriod of a policy
MaxGrace == 1
\* number of records storage.GetAll returns at construction
MaxStored == 2
\* number of goroutines that call SignToken, ValidateToken and GetSecrets at once
MaxReaders == 2
\* largest rotationInterval of a policy
MaxInterval == 1
\* number of goroutines StartAutoRotation starts in one run
MaxTasks == 2

(* ------------------------------ values --------------------------------- *)
\* a nil *Secret
NULL == 0

\* the ID of a StoredSecret whose adapter returns no ID (gcp.go, azure.go)
BlankID == << >>

\* a nil Notifier
NilNotifier == "nil notifier"

NoErr == "nil"
ErrGenerate == "failed to generate secret value"
ErrStore == "failed to store new secret"
ErrNoActive == "no active secret available to sign token"
ErrMethod == "unexpected signing method"
ErrKidNotFound == "token validation failed: secret with kid not found"
ErrUnavailable == "signing method (alg) is unavailable"
ErrSignature == "signature is invalid"
ErrInterval == "rotation interval must be greater than zero"

\* the alg of no token at all
NoAlg == "no token"

\* the signing methods of *jwt.SigningMethodHMAC, and all the registered ones
\* of the alg headers below
HMACMethods == {"HS256", "HS384", "HS512"}
RegisteredMethods == HMACMethods \cup {"RS256", "ES256", "none"}

\* the alg headers of the tokens presented to ValidateToken
TokenAlgs == {"HS256", "HS384", "RS256", "none", "unregistered"}

\* kid headers that are no string: an absent one and a number
NoKid == <<"absent">>
NumberKid == <<"number">>

\* kid, ok := token.Header["kid"].(string)
IsStringKid(kid) == kid \notin {NoKid, NumberKid}

\* the claim sets a caller signs
ClaimSets == {"sub=alice", "sub=bob"}
NoClaims == "no claims"
GracePeriods == 0..MaxGrace
\* the rotation intervals of a policy: negative, zero and positive durations
RotationIntervals == (0 - 1)..MaxInterval

Range(s) == { s[i] : i \in 1..Len(s) }

\* SelectSeq with a predicate over the heap: the elements of s satisfying Keep, in order
RECURSIVE FilterSeq(_, _)
FilterSeq(s, keep) ==
    IF s = << >> THEN << >>
    ELSE IF Head(s) \in keep THEN <<Head(s)>> \o FilterSeq(Tail(s), keep)
    ELSE FilterSeq(Tail(s), keep)

(* ------------------------- pure functions ------------------------------ *)
\* generateSecretId: the first 12 hex characters of HMAC-SHA256 of the value.
\* A keyed digest of the value: distinct from the value and from BlankID, and
\* (random 64-byte values) without collisions among the values of a run.
generateSecretId(value) == <<"hmac-sha256", value>>

\* jwt HS256: the MAC of header and payload under key
HMACSign(key, alg, kid, claims) == <<"mac", key, alg, kid, claims>>

\* the stored records GetAll can return, in enumeration order.  Values of
\* stored records are the negative numbers (generated values are positive).
\* A store that keeps IDs (aws: the JSON document holds ID and CreatedAt)
\* returns them in any order; the adapters that return no ID (gcp, azure)
\* enumerate the newest version first, which NewRotationManager relies on.
\* CreatedAt of a stored record: its age at construction is up to the largest grace period
StoredTimes == (0 - MaxGrace)..0

StoredRecord(i, t, keepsId) ==
    [ID |-> IF keepsId THEN generateSecretId(0 - i) ELSE BlankID,
     Value |-> 0 - i,
     CreatedAt |-> t]

StoreContents ==
    UNION { { [i \in 1..n |-> StoredRecord(i, ts[i], keepsId)] :
                ts \in { f \in [1..n -> StoredTimes] :
                           keepsId \/ \A i \in 1..n, j \in 1..n : i < j => f[i] >= f[j] } } :
            n \in 0..MaxStored, keepsId \in BOOLEAN }

VARIABLES
    clock,            \* time.Now()
    policy,           \* rm.policy
    notifier,         \* rm.notifier
    state,            \* "new" before NewRotationManager, then "ready" or "failed"
    heap,             \* the Secret objects allocated so far: ref -> Secret
    activeSecret,     \* rm.activeSecret: a ref or NULL
    previousSecrets,  \* rm.previousSecrets: a sequence of refs
    mutex,            \* rm.mutex (sync.RWMutex)
    generated,        \* number of values the generator has produced
    persisted,        \* values whose storage.Store returned nil, or loaded by GetAll
    errorLog,         \* the arguments of NotifyError, in call order (last call's)
    rot,              \* the caller of RotateSecret, and what it got back at this instant
    rd,               \* the caller of SignToken / ValidateToken / GetSecrets
    tok,              \* the token the caller holds
    snap,             \* the slice the caller got from GetSecrets
    vres,             \* what ValidateToken returned at this instant
    retiredAt,        \* per ref: the instant it stopped being active (-1: not yet)
    getAll,           \* what storage.GetAll returned to NewRotationManager
    notifying,        \* refs whose `go rm.notifier.NotifyRotation(s)` has not returned
    autoRotate,       \* rm.autoRotate
    tasks,            \* the goroutines started by StartAutoRotation, in start order
    app,              \* the caller of StartAutoRotation / StopAutoRotation
    generator,        \* what NewRandomSecretGenerator returned, and Generate's last result
    model,            \* the terminal program's model (main.go)
    cmd,              \* the tea.Cmd the terminal program last started, and its message
    fn                \* the last invocation of a serverless rotation handler

vars == <<clock, policy, notifier, state, heap, activeSecret, previousSecrets,
          mutex, generated, persisted, errorLog, rot, rd, tok, snap, vres, retiredAt,
          getAll, notifying, autoRotate, tasks, app,
          generator, model, cmd, fn>>

NoToken == [alg |-> NoAlg, kid |-> BlankID, claims |-> NoClaims, sig |-> << >>,
            asked |-> NoClaims, signer |-> NULL, rots |-> 0, inGraceAtRot |-> FALSE, expiredRot |-> FALSE,
            signedAtRot |-> FALSE, err |-> NoErr, during |-> {}]
NoResult == [done |-> FALSE, locked |-> FALSE, read |-> << >>]
NoSnap == [taken |-> FALSE, secrets |-> << >>]
\* the goroutines that call RotateSecret: the application (main.go:488, the
\* serverless handlers) and the ticker goroutine of StartAutoRotation (slack.go:244)
Rotators == {"caller", "ticker"}

\* the application goroutines that call SignToken, ValidateToken and GetSecrets
Readers == 1..MaxReaders

\* the reader whose token, slice and validation result the model follows
Followed == 1

RotIdle == [pc |-> "idle", newSecret |-> NULL, err |-> NoErr,
            returned |-> FALSE, secret |-> NULL, pre |-> << >>]
RdIdle == [pc |-> "idle", act |-> NULL, during |-> {}]

\* the caller of StartAutoRotation / StopAutoRotation: where it is, the call
\* that returned last and the error it returned
AppIdle == [pc |-> "idle", op |-> "none", err |-> NoErr]

\* a goroutine of StartAutoRotation that has just created its ticker at `now`
\* (run: "failed" once a RotateSecret it called has failed, "recovered" once a
\* later one has succeeded)
NewTask(now) == [pc |-> "waiting", start |-> now, chan |-> FALSE, run |-> "fresh"]

\* the goroutine whose run the model follows: the first one started
FollowedTask == 1

\* what task t's run is after a RotateSecret that succeeded or failed
RunAfter(t, run, ok) ==
    IF t # FollowedTask THEN run
    ELSE IF ~ok THEN "failed"
    ELSE IF run = "failed" THEN "recovered" ELSE run

(* ------------------- the generator and the callers --------------------- *)
\* the security floor of NewRandomSecretGenerator
MinSecretSize == 32
\* largest secretSizeBytes asked of NewRandomSecretGenerator
MaxSize == 64
SecretSizes == (0 - 1)..MaxSize

ErrSecretSize == "secret size must be at least 32 bytes"
ErrRandom == "error generating random secret"

\* before NewRandomSecretGenerator: no generator, no value
\* (made: what the constructor returned; value: the length of the []byte the
\* last Generate returned, -1 when it returned nil)
NoGenerator == [made |-> "none", sizeBytes |-> 0, secretSizeBytes |-> 0, err |-> NoErr,
                value |-> 0 - 1, generr |-> NoErr]

\* a Go string is the sequence of its characters
Upper == <<"A", "B", "C", "D", "E", "F", "G", "H", "I", "J", "K", "L", "M",
           "N", "O", "P", "Q", "R", "S", "T", "U", "V", "W", "X", "Y", "Z">>
Lower == <<"a", "b", "c", "d", "e", "f", "g", "h", "i", "j", "k", "l", "m",
           "n", "o", "p", "q", "r", "s", "t", "u", "v", "w", "x", "y", "z">>

\* strings.ToLower
ToLower(s) ==
    [i \in 1..Len(s) |->
        IF \E k \in 1..Len(Upper) : Upper[k] = s[i]
        THEN Lower[CHOOSE k \in 1..Len(Upper) : Upper[k] = s[i]]
        ELSE s[i]]

\* strings.ReplaceAll(s, old, "") for a one-character old
ReplaceAll(s, old) == SelectSeq(s, LAMBDA c : c # old)

\* the placeholders of the text inputs
ProjectIDPlaceholder == <<"P", "r", "o", "j", "e", "c", "t", " ", "I", "D">>
SecretIDPlaceholder == <<"S", "e", "c", "r", "e", "t", " ", "I", "D">>
RegionPlaceholder == <<"R", "e", "g", "i", "o", "n">>
VaultURIPlaceholder == <<"V", "a", "u", "l", "t", " ", "U", "R", "I">>
SecretNamePlaceholder == <<"S", "e", "c", "r", "e", "t", " ", "N", "a", "m", "e">>

\* the keys the adapters' Setup read from the config map
KeyProjectID == <<"p", "r", "o", "j", "e", "c", "t", "I", "D">>
KeySecretID == <<"s", "e", "c", "r", "e", "t", "I", "D">>
KeyRegion == <<"r", "e", "g", "i", "o", "n">>
KeyVaulturi == <<"v", "a", "u", "l", "t", "u", "r", "i">>
KeySecretname == <<"s", "e", "c", "r", "e", "t", "n", "a", "m", "e">>

\* the keys the Azure function writes into its config map
KeyVaultURI == <<"v", "a", "u", "l", "t", "U", "R", "I">>
KeySecretName == <<"s", "e", "c", "r", "e", "t", "N", "a", "m", "e">>

\* the values a text input or an environment variable holds: "" or one typed
\* character
EmptyString == << >>
Typed == <<"x">>
InputValues == {EmptyString, Typed}

ErrProjectIDRequired == "projectID is required for GCP Secret Manager"
ErrSecretIDRequiredGCP == "secretID is required for GCP Secret Manager"
ErrSecretIDRequiredAWS == "secretID is required for AWS Secrets Manager"
ErrRegionRequired == "region is required for AWS Secrets Manager"
ErrVaultURIRequired == "vaultURI is required for Azure Key Vault"
ErrSecretNameRequired == "secretName is required for Azure Key Vault"
ErrClient == "failed to create client"
ErrRequired == {ErrProjectIDRequired, ErrSecretIDRequiredGCP, ErrSecretIDRequiredAWS,
                ErrRegionRequired, ErrVaultURIRequired, ErrSecretNameRequired}
ErrRotation == "rotation failed"
ErrGetLatest == "failed to get latest secret"
ErrScript == "failed to write deployment script"

providerChoices == <<"GCP", "AWS", "Azure">>
notifierChoices == <<"Sentry", "Slack">>
initialActions == <<"actionRotate", "actionCheckStatus">>

\* textinput.New() with its Placeholder, after Focus() when focus is TRUE
TextInput(placeholder, focus) == [Placeholder |-> placeholder, focus |-> focus, value |-> EmptyString]

\* setupConfigInputs(provider)
setupConfigInputs(provider) ==
    CASE provider = "GCP" -> <<TextInput(ProjectIDPlaceholder, TRUE), TextInput(SecretIDPlaceholder, FALSE)>>
      [] provider = "AWS" -> <<TextInput(SecretIDPlaceholder, TRUE), TextInput(RegionPlaceholder, FALSE)>>
      [] provider = "Azure" -> <<TextInput(VaultURIPlaceholder, TRUE), TextInput(SecretNamePlaceholder, FALSE)>>
      [] OTHER -> << >>

\* initialModel(): the fields Update reads and writes
initialModel == [state |-> "choosingAction", cursor |-> 0, configInputs |-> << >>,
                 provider |-> "", executionMode |-> "runOnce", selectedNotifiers |-> {},
                 message |-> "", initialAction |-> "actionRotate"]

\* no command started / no handler invoked
NoCmd == [name |-> "none", pc |-> "none", config |-> << >>, err |-> NoErr]
NoCall == [handler |-> "none", config |-> << >>, err |-> NoErr]

Init ==
    /\ clock = 0
    /\ policy \in [GracePeriod : GracePeriods, RotationInterval : {0}]
    /\ notifier = "multi"
    /\ state = "new"
    /\ heap = << >>
    /\ activeSecret = NULL
    /\ previousSecrets = << >>
    /\ mutex = [writer |-> FALSE, readers |-> 0, pending |-> FALSE]
    /\ generated = 0
    /\ persisted = {}
    /\ errorLog = << >>
    /\ rot = [p \in Rotators |-> RotIdle]
    /\ rd = [q \in Readers |-> RdIdle]
    /\ tok = NoToken
    /\ snap = NoSnap
    /\ vres = NoResult
    /\ retiredAt = << >>
    /\ getAll = "not called"
    /\ notifying = {}
    /\ autoRotate = FALSE
    /\ tasks = << >>
    /\ app = AppIdle
    /\ generator = NoGenerator
    /\ model = initialModel
    /\ cmd = NoCmd
    /\ fn = NoCall

(* --------------------------- the engine -------------------------------- *)
\* a Secret built with Active = true whatever it is built for
Secret_AlwaysActive(id, value, createdAt, active) ==
    [ID |-> id, Value |-> value, CreatedAt |-> createdAt, Active |-> TRUE]

Secret(id, value, createdAt, active) ==
    [ID |-> id, Value |-> value, CreatedAt |-> createdAt, Active |-> active]

\* generateAndStoreSecret with the error of storage.Store dropped
generateAndStoreSecret_IgnoresStoreError(genOk, storeOk, value, now) ==
    IF ~genOk THEN [secret |-> NULL, err |-> ErrGenerate]
    ELSE [secret |-> Secret(generateSecretId(value), value, now, TRUE), err |-> NoErr]

\* generateAndStoreSecret that leaves Active unset in the Secret it builds
generateAndStoreSecret_Inactive(genOk, storeOk, value, now) ==
    IF ~genOk THEN [secret |-> NULL, err |-> ErrGenerate]
    ELSE IF ~storeOk THEN [secret |-> NULL, err |-> ErrStore]
    ELSE [secret |-> Secret(generateSecretId(value), value, now, FALSE), err |-> NoErr]

\* generateAndStoreSecret: Generate, build the Secret stamped time.Now(), Store.
\* genOk / storeOk are the outcomes of generator.Generate and storage.Store.
generateAndStoreSecret(genOk, storeOk, value, now) ==
    IF ~genOk THEN [secret |-> NULL, err |-> ErrGenerate]
    ELSE IF ~storeOk THEN [secret |-> NULL, err |-> ErrStore]
    ELSE [secret |-> Secret(generateSecretId(value), value, now, TRUE), err |-> NoErr]

\* cleanupOldSecrets that removes nothing
cleanupOldSecrets_KeepsAll(prev, h, gracePeriod, now) == prev

\* cleanupOldSecrets that never examines the secret just retired (the head)
cleanupOldSecrets_SkipsHead(prev, h, gracePeriod, now) ==
    IF gracePeriod <= 0 \/ prev = << >> THEN prev
    ELSE <<Head(prev)>> \o
         FilterSeq(Tail(prev), { r \in Range(prev) : h[r].CreatedAt > now - gracePeriod })

\* cleanupOldSecrets without the `GracePeriod <= 0` return
cleanupOldSecrets_NoGraceCheck(prev, h, gracePeriod, now) ==
    FilterSeq(prev, { r \in Range(prev) : h[r].CreatedAt > now - gracePeriod })

\* cleanupOldSecrets: keep the previous secrets with CreatedAt.After(now - GracePeriod)
cleanupOldSecrets(prev, h, gracePeriod, now) ==
    IF gracePeriod <= 0 THEN prev
    ELSE FilterSeq(prev, { r \in Range(prev) : h[r].CreatedAt > now - gracePeriod })

\* demoteActive that puts the replaced secret behind the previous ones
demoteActive_AppendsActive(h, act, prev, gracePeriod, now) ==
    IF act # NULL
    THEN LET h2 == [h EXCEPT ![act].Active = FALSE]
         IN  [heap |-> h2,
              previous |-> cleanupOldSecrets(prev \o <<act>>, h2, gracePeriod, now)]
    ELSE [heap |-> h, previous |-> prev]

\* demoteActive that forgets the secret it replaces
demoteActive_DropsActive(h, act, prev, gracePeriod, now) ==
    IF act # NULL
    THEN LET h2 == [h EXCEPT ![act].Active = FALSE]
         IN  [heap |-> h2, previous |-> cleanupOldSecrets(prev, h2, gracePeriod, now)]
    ELSE [heap |-> h, previous |-> prev]

\* demoteActive without `rm.activeSecret.Active = false`
demoteActive_KeepsActive(h, act, prev, gracePeriod, now) ==
    IF act # NULL
    THEN [heap |-> h, previous |-> cleanupOldSecrets(<<act>> \o prev, h, gracePeriod, now)]
    ELSE [heap |-> h, previous |-> prev]

\* the working set after `if rm.activeSecret != nil { ... }` of RotateSecret: the
\* active secret marked inactive and put in front of the previous ones, then cleanup
demoteActive(h, act, prev, gracePeriod, now) ==
    IF act # NULL
    THEN LET h2 == [h EXCEPT ![act].Active = FALSE]
         IN  [heap |-> h2,
              previous |-> cleanupOldSecrets(<<act>> \o prev, h2, gracePeriod, now)]
    ELSE [heap |-> h, previous |-> prev]

\* a Store that replaces what the store holds
StoreWrite_Overwrites(stored, genOk, storeOk, value) ==
    IF genOk /\ storeOk THEN {value} ELSE stored

\* storage.Store(ctx, secret.ID, secret.Value, secret.CreatedAt): the values the
\* store holds afterwards
StoreWrite(stored, genOk, storeOk, value) ==
    IF genOk /\ storeOk THEN stored \cup {value} ELSE stored

\* a notifier that is never told of errors
NotifyError_Silent(log, err) == log

\* rm.notifier.NotifyError(err), guarded by rm.notifier != nil
NotifyError(log, err) == IF notifier # NilNotifier THEN Append(log, err) ELSE log

\* GetSecrets' result: the active secret (if any), then the previous ones
GetSecretsValue ==
    (IF activeSecret # NULL THEN <<activeSecret>> ELSE << >>) \o previousSecrets

NewRotationManager ==
    /\ state = "new"
    /\ \E getAllOk \in BOOLEAN, stored \in StoreContents, genOk \in BOOLEAN, storeOk \in BOOLEAN :
         IF getAllOk /\ Len(stored) > 0
         THEN /\ heap' = [i \in 1..Len(stored) |->
                            Secret(stored[i].ID, stored[i].Value, stored[i].CreatedAt, i = 1)]
              /\ activeSecret' = 1
              /\ previousSecrets' = [i \in 1..(Len(stored) - 1) |-> i + 1]
              /\ retiredAt' = [i \in 1..Len(stored) |-> 0 - 1]
              /\ persisted' = { stored[i].Value : i \in 1..Len(stored) }
              /\ state' = "ready"
              /\ getAll' = "records"
              /\ UNCHANGED <<generated, errorLog>>
         ELSE LET out == generateAndStoreSecret(genOk, storeOk, generated + 1, clock)
              IN  /\ generated' = IF genOk THEN generated + 1 ELSE generated
                  /\ persisted' = StoreWrite(persisted, genOk, storeOk, generated + 1)
                  /\ getAll' = IF getAllOk THEN "empty" ELSE "error"
                  /\ IF out.err # NoErr
                     THEN /\ errorLog' = NotifyError(errorLog, out.err)
                          /\ state' = "failed"
                          /\ UNCHANGED <<heap, activeSecret, previousSecrets, retiredAt>>
                     ELSE /\ heap' = <<out.secret>>
                          /\ activeSecret' = 1
                          /\ retiredAt' = <<0 - 1>>
                          /\ state' = "ready"
                          /\ UNCHANGED <<previousSecrets, errorLog>>
    /\ UNCHANGED <<clock, policy, notifier, mutex, rot, rd, tok, snap, vres, notifying,
                   autoRotate, tasks, app, generator, model, cmd, fn>>

\* time.NewTicker(interval) at instant `now`: each live task's ticker sends on
\* its channel ticker.C (capacity 1) when a whole number of intervals has
\* passed since the task started; a tick sent to a full channel is dropped
TickerSend(ts, interval, now) ==
    [t \in DOMAIN ts |->
        IF ts[t].pc # "exited" /\ interval > 0 /\ (now - ts[t].start) % interval = 0
        THEN [ts[t] EXCEPT !.chan = TRUE]
        ELSE ts[t]]

\* time passes; what RotateSecret, GetSecrets and ValidateToken returned is what
\* they returned at this instant, and is forgotten as the clock moves on
Tick ==
    /\ state = "ready"
    /\ clock < MaxTime
    /\ clock' = clock + 1
    /\ rot' = [p \in Rotators |-> IF rot[p].pc = "idle" THEN RotIdle ELSE rot[p]]
    /\ vres' = NoResult
    /\ snap' = NoSnap
    /\ errorLog' = IF \A p \in Rotators : rot[p].pc = "idle" THEN << >> ELSE errorLog
    /\ tasks' = TickerSend(tasks, policy.RotationInterval, clock + 1)
    /\ UNCHANGED <<policy, notifier, state, heap, activeSecret, previousSecrets, mutex,
                   generated, persisted, rd, tok, retiredAt, getAll, notifying, autoRotate, app, generator, model, cmd, fn>>

(* ---------------------------- RotateSecret ----------------------------- *)
\* the values generated for RotateSecret calls: all but the one NewRotationManager
\* generated when the store gave it no record
GeneratedByRotation == generated - (IF getAll \in {"empty", "error"} THEN 1 ELSE 0)

\* rm.mutex's writer side is free: no RotateSecret holds or awaits the write lock
WriterFree == ~mutex.writer /\ ~mutex.pending

\* the call by p: rm.mutex.Lock().  With the writer side free, Lock announces
\* the writer, which stops new readers; otherwise p queues behind the other writer.
RotateSecretCall(p) ==
    /\ state = "ready"
    /\ rot[p].pc = "idle"
    /\ GeneratedByRotation < MaxSecrets
    /\ rot' = [rot EXCEPT ![p] = [RotIdle EXCEPT
                  !.pc = IF WriterFree THEN "lock" ELSE "call",
                  !.pre = <<heap, activeSecret, previousSecrets>>]]
    /\ mutex' = IF WriterFree THEN [mutex EXCEPT !.pending = TRUE] ELSE mutex
    /\ errorLog' = << >>
    /\ UNCHANGED <<clock, policy, notifier, state, heap, activeSecret, previousSecrets,
                   generated, persisted, rd, tok, snap, vres, retiredAt, getAll, notifying, autoRotate, tasks, app, generator, model, cmd, fn>>

\* the writer ahead of p has unlocked: p's Lock() announces p as the writer
RotateSecretWake(p) ==
    /\ rot[p].pc = "call"
    /\ WriterFree
    /\ rot' = [rot EXCEPT ![p].pc = "lock"]
    /\ mutex' = [mutex EXCEPT !.pending = TRUE]
    /\ UNCHANGED <<clock, policy, notifier, state, heap, activeSecret, previousSecrets,
                   generated, persisted, errorLog, rd, tok, snap, vres, retiredAt,
                   getAll, notifying, autoRotate, tasks, app, generator, model, cmd, fn>>

\* Lock() returns once the readers have left
RotateSecretLock(p) ==
    /\ rot[p].pc = "lock"
    /\ mutex.readers = 0
    /\ ~mutex.writer
    /\ mutex' = [writer |-> TRUE, readers |-> 0, pending |-> FALSE]
    /\ rot' = [rot EXCEPT ![p].pc = "generate"]
    /\ UNCHANGED <<clock, policy, notifier, state, heap, activeSecret, previousSecrets,
                   generated, persisted, errorLog, rd, tok, snap, vres, retiredAt,
                   getAll, notifying, autoRotate, tasks, app, generator, model, cmd, fn>>

\* newSecret, err := rm.generateAndStoreSecret(), under the lock
RotateSecretGenerateAndStore(p) ==
    /\ rot[p].pc = "generate"
    /\ \E genOk \in BOOLEAN, storeOk \in BOOLEAN :
         LET out == generateAndStoreSecret(genOk, storeOk, generated + 1, clock)
         IN  /\ generated' = IF genOk THEN generated + 1 ELSE generated
             /\ persisted' = StoreWrite(persisted, genOk, storeOk, generated + 1)
             /\ rot' = [rot EXCEPT ![p].pc = "generated", ![p].newSecret = out.secret,
                                   ![p].err = out.err]
    /\ UNCHANGED <<clock, policy, notifier, state, heap, activeSecret, previousSecrets,
                   mutex, errorLog, rd, tok, snap, vres, retiredAt, getAll, notifying, autoRotate, tasks, app, generator, model, cmd, fn>>

\* a failing RotateSecret that has already marked the active secret inactive
RotateSecretFail_Partial(p) ==
    /\ rot[p].pc = "generated"
    /\ rot[p].err # NoErr
    /\ errorLog' = NotifyError(errorLog, rot[p].err)
    /\ mutex' = [mutex EXCEPT !.writer = FALSE]
    /\ rot' = [rot EXCEPT ![p].pc = "idle", ![p].returned = TRUE, ![p].secret = NULL]
    /\ heap' = [heap EXCEPT ![activeSecret].Active = FALSE]
    /\ UNCHANGED <<clock, policy, notifier, state, activeSecret, previousSecrets,
                   generated, persisted, rd, tok, snap, vres, retiredAt, getAll, notifying, autoRotate, tasks, app, generator, model, cmd, fn>>

\* err != nil: NotifyError, return nil, err (the deferred Unlock runs)
RotateSecretFail(p) ==
    /\ rot[p].pc = "generated"
    /\ rot[p].err # NoErr
    /\ errorLog' = NotifyError(errorLog, rot[p].err)
    /\ mutex' = [mutex EXCEPT !.writer = FALSE]
    /\ rot' = [rot EXCEPT ![p].pc = "idle", ![p].returned = TRUE, ![p].secret = NULL]
    /\ UNCHANGED <<clock, policy, notifier, state, heap, activeSecret, previousSecrets,
                   generated, persisted, rd, tok, snap, vres, retiredAt, getAll, notifying, autoRotate, tasks, app, generator, model, cmd, fn>>

\* the signing secret's history, as a rotation at `now` changes it
TokenAfterRotation(t, h, gracePeriod, now) ==
    IF t.signer = NULL THEN t
    ELSE LET age == now - h[t.signer].CreatedAt
         IN  [t EXCEPT !.rots = IF t.rots < 2 THEN t.rots + 1 ELSE 2,
                       !.inGraceAtRot = IF t.rots = 0
                                        THEN gracePeriod <= 0 \/ gracePeriod > age
                                        ELSE t.inGraceAtRot,
                       !.signedAtRot = t.rots = 0 /\ t.sig # << >>,
                       !.expiredRot = t.expiredRot \/ (gracePeriod > 0 /\ age > gracePeriod)]

\* the SignToken calls in progress, told of a secret that became active meanwhile
ReadersAfterRotation(readers, newRef) ==
    [q \in DOMAIN readers |->
        IF readers[q].pc \in {"sign_read", "sign_sign"}
        THEN [readers[q] EXCEPT !.during = @ \cup {newRef}]
        ELSE readers[q]]

\* a RotateSecret that waits for NotifyRotation under the lock instead of
\* starting a goroutine for it
RotateSecretCommit_WaitsForNotifier(p) ==
    /\ rot[p].pc = "generated"
    /\ rot[p].err = NoErr
    /\ LET newRef == Len(heap) + 1
           ws == demoteActive(heap, activeSecret, previousSecrets, policy.GracePeriod, clock)
       IN  /\ heap' = Append(ws.heap, rot[p].newSecret)
           /\ previousSecrets' = ws.previous
           /\ activeSecret' = newRef
           /\ retiredAt' = Append(IF activeSecret # NULL
                                  THEN [retiredAt EXCEPT ![activeSecret] = clock]
                                  ELSE retiredAt, 0 - 1)
           /\ rot' = [rot EXCEPT ![p].pc = "notify", ![p].secret = newRef,
                                 ![p].newSecret = NULL, ![p].pre = << >>]
           /\ rd' = ReadersAfterRotation(rd, newRef)
    /\ notifying' = IF notifier # NilNotifier
                     THEN notifying \cup {Len(heap) + 1}
                     ELSE notifying
    /\ tok' = TokenAfterRotation(tok, heap, policy.GracePeriod, clock)
    /\ UNCHANGED <<clock, policy, notifier, state, generated, persisted, errorLog,
                   mutex, snap, vres, getAll, autoRotate, tasks, app, generator, model, cmd, fn>>

\* a RotateSecret that splices into the working set it saw when it was called
RotateSecretCommit_StaleWorkingSet(p) ==
    /\ rot[p].pc = "generated"
    /\ rot[p].err = NoErr
    /\ LET newRef == Len(heap) + 1
           ws == demoteActive(heap, rot[p].pre[2], rot[p].pre[3], policy.GracePeriod, clock)
       IN  /\ heap' = Append(ws.heap, rot[p].newSecret)
           /\ previousSecrets' = ws.previous
           /\ activeSecret' = newRef
           /\ retiredAt' = Append(IF activeSecret # NULL
                                  THEN [retiredAt EXCEPT ![activeSecret] = clock]
                                  ELSE retiredAt, 0 - 1)
           /\ rot' = [rot EXCEPT ![p].pc = "idle", ![p].returned = TRUE, ![p].secret = newRef,
                                 ![p].newSecret = NULL, ![p].pre = << >>]
           /\ rd' = ReadersAfterRotation(rd, newRef)
    /\ notifying' = IF notifier # NilNotifier
                     THEN notifying \cup {Len(heap) + 1}
                     ELSE notifying
    /\ tok' = TokenAfterRotation(tok, heap, policy.GracePeriod, clock)
    /\ mutex' = [mutex EXCEPT !.writer = FALSE]
    /\ UNCHANGED <<clock, policy, notifier, state, generated, persisted, errorLog,
                   snap, vres, getAll, autoRotate, tasks, app, generator, model, cmd, fn>>

\* err == nil: demote the active secret, clean up, promote newSecret, start the
\* NotifyRotation goroutine, return newSecret
RotateSecretCommit(p) ==
    /\ rot[p].pc = "generated"
    /\ rot[p].err = NoErr
    /\ LET newRef == Len(heap) + 1
           ws == demoteActive(heap, activeSecret, previousSecrets, policy.GracePeriod, clock)
       IN  /\ heap' = Append(ws.heap, rot[p].newSecret)
           /\ previousSecrets' = ws.previous
           /\ activeSecret' = newRef
           /\ retiredAt' = Append(IF activeSecret # NULL
                                  THEN [retiredAt EXCEPT ![activeSecret] = clock]
                                  ELSE retiredAt, 0 - 1)
           /\ rot' = [rot EXCEPT ![p].pc = "idle", ![p].returned = TRUE, ![p].secret = newRef,
                                 ![p].newSecret = NULL, ![p].pre = << >>]
           /\ rd' = ReadersAfterRotation(rd, newRef)
    /\ notifying' = IF notifier # NilNotifier
                     THEN notifying \cup {Len(heap) + 1}
                     ELSE notifying
    /\ tok' = TokenAfterRotation(tok, heap, policy.GracePeriod, clock)
    /\ mutex' = [mutex EXCEPT !.writer = FALSE]
    /\ UNCHANGED <<clock, policy, notifier, state, generated, persisted, errorLog,
                   snap, vres, getAll, autoRotate, tasks, app, generator, model, cmd, fn>>

\* the goroutine `go rm.notifier.NotifyRotation(newSecret)` returns: every
\* notifier of the MultiNotifier has posted its message or printed its failure.
\* A NotifyRotation that blocks forever is one whose return never happens.
NotifyRotationReturn ==
    /\ \E s \in notifying : notifying' = notifying \ {s}
    /\ UNCHANGED <<clock, policy, notifier, state, heap, activeSecret, previousSecrets,
                   mutex, generated, persisted, errorLog, rot, rd, tok, snap, vres,
                   retiredAt, getAll, autoRotate, tasks, app, generator, model, cmd, fn>>

(* ------------------------------ readers -------------------------------- *)
\* an RLock() that takes no notice of the writer
CanRLock_IgnoresWriter == TRUE

\* RLock() succeeds unless a writer holds the mutex or waits for it
CanRLock == ~mutex.writer /\ ~mutex.pending

RLock(m) == [m EXCEPT !.readers = m.readers + 1]
RUnlock(m, n) == [m EXCEPT !.readers = m.readers - n]

\* tok, snap and vres are what reader q got back, when q is the reader followed
Held(q, new, old) == IF q = Followed THEN new ELSE old

\* SignToken(claims) by q: jm.mutex.RLock().  The claims are drawn where they
\* are first used, in SignTokenSign.
SignTokenRLock(q) ==
    /\ state = "ready"
    /\ rd[q].pc = "idle"
    /\ CanRLock
    /\ rd' = [rd EXCEPT ![q] = [RdIdle EXCEPT !.pc = "sign_read",
                                              !.during = {activeSecret} \ {NULL}]]
    /\ mutex' = RLock(mutex)
    /\ tok' = Held(q, NoToken, tok)
    /\ snap' = Held(q, NoSnap, snap)
    /\ vres' = Held(q, NoResult, vres)
    /\ UNCHANGED <<clock, policy, notifier, state, heap, activeSecret, previousSecrets,
                   generated, persisted, errorLog, rot, retiredAt, getAll, notifying, autoRotate, tasks, app, generator, model, cmd, fn>>

\* activeSecret := jm.activeSecret; jm.mutex.RUnlock()
SignTokenRead(q) ==
    /\ rd[q].pc = "sign_read"
    /\ rd' = [rd EXCEPT ![q].pc = "sign_sign", ![q].act = activeSecret]
    /\ tok' = Held(q, [NoToken EXCEPT !.signer = activeSecret], tok)
    /\ mutex' = RUnlock(mutex, 1)
    /\ UNCHANGED <<clock, policy, notifier, state, heap, activeSecret, previousSecrets,
                   generated, persisted, errorLog, rot, snap, vres, retiredAt,
                   getAll, notifying, autoRotate, tasks, app, generator, model, cmd, fn>>

\* SignToken without `token.Header["kid"] = activeSecret.ID`
SignedToken_NoKid(t, secret, claims) ==
    [t EXCEPT !.alg = "HS256", !.kid = BlankID, !.claims = claims,
              !.sig = HMACSign(secret.Value, "HS256", BlankID, claims)]

\* the token SignToken builds from the secret it read
SignedToken(t, secret, claims) ==
    [t EXCEPT !.alg = "HS256", !.kid = secret.ID, !.claims = claims,
              !.sig = HMACSign(secret.Value, "HS256", secret.ID, claims)]

\* a SignToken that takes the key from jm.activeSecret again when it signs
SignTokenSign_ReadsTwice(q) ==
    /\ rd[q].pc = "sign_sign"
    /\ \E claims \in ClaimSets :
         IF rd[q].act = NULL
         THEN tok' = Held(q, [NoToken EXCEPT !.err = ErrNoActive], tok)
         ELSE tok' = Held(q, [SignedToken(tok, [heap[rd[q].act] EXCEPT
                                                   !.Value = heap[activeSecret].Value],
                                          claims)
                                EXCEPT !.asked = claims, !.during = rd[q].during], tok)
    /\ rd' = [rd EXCEPT ![q].pc = "idle"]
    /\ UNCHANGED <<clock, policy, notifier, state, heap, activeSecret, previousSecrets,
                   mutex, generated, persisted, errorLog, rot, snap, vres, retiredAt,
                   getAll, notifying, autoRotate, tasks, app, generator, model, cmd, fn>>

\* nil check, kid header, token.SignedString(activeSecret.Value)
SignTokenSign(q) ==
    /\ rd[q].pc = "sign_sign"
    /\ \E claims \in ClaimSets :
         IF rd[q].act = NULL
         THEN tok' = Held(q, [NoToken EXCEPT !.err = ErrNoActive], tok)
         ELSE tok' = Held(q, [SignedToken(tok, heap[rd[q].act], claims)
                                EXCEPT !.asked = claims, !.during = rd[q].during], tok)
    /\ rd' = [rd EXCEPT ![q].pc = "idle"]
    /\ UNCHANGED <<clock, policy, notifier, state, heap, activeSecret, previousSecrets,
                   mutex, generated, persisted, errorLog, rot, snap, vres, retiredAt,
                   getAll, notifying, autoRotate, tasks, app, generator, model, cmd, fn>>

\* GetSecrets() by q: rm.mutex.RLock()
GetSecretsRLock(q) ==
    /\ state = "ready"
    /\ rd[q].pc = "idle"
    /\ CanRLock
    /\ rd' = [rd EXCEPT ![q] = [RdIdle EXCEPT !.pc = "get_read"]]
    /\ mutex' = RLock(mutex)
    /\ snap' = Held(q, NoSnap, snap)
    /\ vres' = Held(q, NoResult, vres)
    /\ UNCHANGED <<clock, policy, notifier, state, heap, activeSecret, previousSecrets,
                   generated, persisted, errorLog, rot, tok, retiredAt, getAll, notifying, autoRotate, tasks, app, generator, model, cmd, fn>>

\* build the slice, return it (the deferred RUnlock runs)
GetSecretsRead(q) ==
    /\ rd[q].pc = "get_read"
    /\ snap' = Held(q, [taken |-> TRUE, secrets |-> GetSecretsValue], snap)
    /\ mutex' = RUnlock(mutex, 1)
    /\ rd' = [rd EXCEPT ![q].pc = "idle"]
    /\ UNCHANGED <<clock, policy, notifier, state, heap, activeSecret, previousSecrets,
                   generated, persisted, errorLog, rot, tok, vres, retiredAt,
                   getAll, notifying, autoRotate, tasks, app, generator, model, cmd, fn>>

\* a key function that looks at the active secret only
FindKey_ActiveOnly(secrets, h, kid) ==
    IF secrets # << >> /\ h[Head(secrets)].ID = kid
    THEN [found |-> TRUE, key |-> h[Head(secrets)].Value]
    ELSE [found |-> FALSE, key |-> 0]

\* a key function that goes on scanning and keeps the last secret with the kid
RECURSIVE FindKey_LastMatch(_, _, _)
FindKey_LastMatch(secrets, h, kid) ==
    IF secrets = << >> THEN [found |-> FALSE, key |-> 0]
    ELSE LET rest == FindKey_LastMatch(Tail(secrets), h, kid)
         IN  IF rest.found THEN rest
             ELSE IF h[Head(secrets)].ID = kid
             THEN [found |-> TRUE, key |-> h[Head(secrets)].Value]
             ELSE rest

\* the key function of ValidateToken over the slice GetSecrets returned:
\* the Value of the first secret whose ID is the token's kid
RECURSIVE FindKey(_, _, _)
FindKey(secrets, h, kid) ==
    IF secrets = << >> THEN [found |-> FALSE, key |-> 0]
    ELSE IF h[Head(secrets)].ID = kid THEN [found |-> TRUE, key |-> h[Head(secrets)].Value]
    ELSE FindKey(Tail(secrets), h, kid)

\* what jwt.Parse returns for token t once the key function has run on `secrets`
ParseResult(t, secrets, h) ==
    LET k == IF IsStringKid(t.kid) THEN FindKey(secrets, h, t.kid)
             ELSE [found |-> FALSE, key |-> 0]
    IN  IF ~k.found THEN [ok |-> FALSE, err |-> ErrKidNotFound, claims |-> NoClaims]
        ELSE IF t.sig # HMACSign(k.key, t.alg, t.kid, t.claims)
        THEN [ok |-> FALSE, err |-> ErrSignature, claims |-> NoClaims]
        ELSE [ok |-> TRUE, err |-> NoErr, claims |-> t.claims]

\* the result, with the history of the token it is the result for, whether the
\* call took the read lock and the slice of secrets it read
ValidateResult(res, t, locked, secrets) ==
    [done |-> TRUE, ok |-> res.ok, err |-> res.err, claims |-> res.claims,
     rots |-> t.rots, inGraceAtRot |-> t.inGraceAtRot, expiredRot |-> t.expiredRot,
     locked |-> locked, read |-> secrets]

\* a key function without the signing-method check
MethodCheck_AcceptsAll(alg) == NoErr

\* jwt.Parse looks the alg header up among the registered methods, then the
\* key function checks token.Method.(*jwt.SigningMethodHMAC)
MethodCheck(alg) ==
    IF alg \notin RegisteredMethods THEN ErrUnavailable
    ELSE IF alg \notin HMACMethods THEN ErrMethod
    ELSE NoErr

\* a token string reaches the caller from outside: any header and payload, with
\* the MAC under any key of the working set or under a key of the sender's own.
\* One token per run: what ValidateToken answers depends on the token and the
\* working set alone, and no token changes the working set.
PresentToken ==
    /\ state = "ready"
    /\ rd[Followed].pc = "idle"
    /\ tok = NoToken
    /\ \E alg \in TokenAlgs, claims \in ClaimSets,
          kid \in {NoKid, NumberKid, generateSecretId(0)} \cup { heap[r].ID : r \in 1..Len(heap) },
          key \in {0} \cup { heap[r].Value : r \in 1..Len(heap) } :
         tok' = [NoToken EXCEPT !.alg = alg, !.kid = kid, !.claims = claims,
                                !.sig = HMACSign(key, alg, kid, claims)]
    /\ vres' = NoResult
    /\ UNCHANGED <<clock, policy, notifier, state, heap, activeSecret, previousSecrets,
                   mutex, generated, persisted, errorLog, rot, rd, snap, retiredAt,
                   getAll, notifying, autoRotate, tasks, app, generator, model, cmd, fn>>

\* ValidateToken(tok) by q: the signing-method check, then jm.mutex.RLock()
ValidateTokenStart(q) ==
    /\ state = "ready"
    /\ rd[q].pc = "idle"
    /\ tok.alg # NoAlg
    /\ snap' = Held(q, NoSnap, snap)
    /\ IF MethodCheck(tok.alg) # NoErr
       THEN /\ vres' = Held(q, ValidateResult([ok |-> FALSE, err |-> MethodCheck(tok.alg),
                                               claims |-> NoClaims], tok, FALSE, << >>),
                            vres)
            /\ UNCHANGED <<rd, mutex>>
       ELSE /\ CanRLock
            /\ vres' = Held(q, NoResult, vres)
            /\ rd' = [rd EXCEPT ![q] = [RdIdle EXCEPT !.pc = "val_getsecrets"]]
            /\ mutex' = RLock(mutex)
    /\ UNCHANGED <<clock, policy, notifier, state, heap, activeSecret, previousSecrets,
                   generated, persisted, errorLog, rot, tok, retiredAt, getAll, notifying, autoRotate, tasks, app, generator, model, cmd, fn>>

\* jm.GetSecrets() inside the key function: RLock again, on the same mutex
ValidateTokenGetSecrets(q) ==
    /\ rd[q].pc = "val_getsecrets"
    /\ CanRLock
    /\ mutex' = RLock(mutex)
    /\ rd' = [rd EXCEPT ![q].pc = "val_scan"]
    /\ UNCHANGED <<clock, policy, notifier, state, heap, activeSecret, previousSecrets,
                   generated, persisted, errorLog, rot, tok, snap, vres, retiredAt,
                   getAll, notifying, autoRotate, tasks, app, generator, model, cmd, fn>>

\* scan the slice for the kid, both RUnlocks, signature verification
ValidateTokenFinish(q) ==
    /\ rd[q].pc = "val_scan"
    /\ vres' = Held(q, ValidateResult(ParseResult(tok, GetSecretsValue, heap), tok,
                                      TRUE, GetSecretsValue), vres)
    /\ mutex' = RUnlock(mutex, 2)
    /\ rd' = [rd EXCEPT ![q].pc = "idle"]
    /\ UNCHANGED <<clock, policy, notifier, state, heap, activeSecret, previousSecrets,
                   generated, persisted, errorLog, rot, tok, snap, retiredAt,
                   getAll, notifying, autoRotate, tasks, app, generator, model, cmd, fn>>

(* --------------------------- auto-rotation ----------------------------- *)
\* rm.mutex is free for Lock(): no writer and no reader holds it
CanLock == ~mutex.writer /\ ~mutex.pending /\ mutex.readers = 0

\* StartAutoRotation() by the application: rm.mutex.Lock()
StartAutoRotationLock ==
    /\ state = "ready"
    /\ app.pc = "idle"
    /\ Len(tasks) < MaxTasks
    /\ CanLock
    /\ mutex' = [mutex EXCEPT !.writer = TRUE]
    /\ app' = [app EXCEPT !.pc = "start"]
    /\ UNCHANGED <<clock, policy, notifier, state, heap, activeSecret, previousSecrets,
                   generated, persisted, errorLog, rot, rd, tok, snap, vres, retiredAt,
                   getAll, notifying, autoRotate, tasks, generator, model, cmd, fn>>

\* a StartAutoRotation that does not look at the interval
StartAutoRotationBody_NoIntervalCheck ==
    /\ app.pc = "start"
    /\ autoRotate' = TRUE
    /\ tasks' = Append(tasks, NewTask(clock))
    /\ app' = [pc |-> "idle", op |-> "StartAutoRotation", err |-> NoErr]
    /\ mutex' = [mutex EXCEPT !.writer = FALSE]
    /\ UNCHANGED <<clock, policy, notifier, state, heap, activeSecret, previousSecrets,
                   generated, persisted, errorLog, rot, rd, tok, snap, vres, retiredAt,
                   getAll, notifying, generator, model, cmd, fn>>

\* the body of StartAutoRotation under the lock: the interval check, then
\* rm.autoRotate = true and `go func() { ticker := time.NewTicker(...) ... }()`;
\* the deferred Unlock
StartAutoRotationBody ==
    /\ app.pc = "start"
    /\ IF policy.RotationInterval <= 0
       THEN /\ app' = [pc |-> "idle", op |-> "StartAutoRotation", err |-> ErrInterval]
            /\ UNCHANGED <<autoRotate, tasks>>
       ELSE /\ autoRotate' = TRUE
            /\ tasks' = Append(tasks, NewTask(clock))
            /\ app' = [pc |-> "idle", op |-> "StartAutoRotation", err |-> NoErr]
    /\ mutex' = [mutex EXCEPT !.writer = FALSE]
    /\ UNCHANGED <<clock, policy, notifier, state, heap, activeSecret, previousSecrets,
                   generated, persisted, errorLog, rot, rd, tok, snap, vres, retiredAt,
                   getAll, notifying, generator, model, cmd, fn>>

\* StopAutoRotation() by the application: rm.mutex.Lock()
StopAutoRotationLock ==
    /\ state = "ready"
    /\ app.pc = "idle"
    /\ CanLock
    /\ mutex' = [mutex EXCEPT !.writer = TRUE]
    /\ app' = [app EXCEPT !.pc = "stop"]
    /\ UNCHANGED <<clock, policy, notifier, state, heap, activeSecret, previousSecrets,
                   generated, persisted, errorLog, rot, rd, tok, snap, vres, retiredAt,
                   getAll, notifying, autoRotate, tasks, generator, model, cmd, fn>>

\* a StopAutoRotation that flips rm.autoRotate
StopAutoRotationBody_Toggles ==
    /\ app.pc = "stop"
    /\ autoRotate' = ~autoRotate
    /\ app' = [pc |-> "idle", op |-> "StopAutoRotation", err |-> NoErr]
    /\ mutex' = [mutex EXCEPT !.writer = FALSE]
    /\ UNCHANGED <<clock, policy, notifier, state, heap, activeSecret, previousSecrets,
                   generated, persisted, errorLog, rot, rd, tok, snap, vres, retiredAt,
                   getAll, notifying, tasks, generator, model, cmd, fn>>

\* rm.autoRotate = false; the deferred Unlock
StopAutoRotationBody ==
    /\ app.pc = "stop"
    /\ autoRotate' = FALSE
    /\ app' = [pc |-> "idle", op |-> "StopAutoRotation", err |-> NoErr]
    /\ mutex' = [mutex EXCEPT !.writer = FALSE]
    /\ UNCHANGED <<clock, policy, notifier, state, heap, activeSecret, previousSecrets,
                   generated, persisted, errorLog, rot, rd, tok, snap, vres, retiredAt,
                   getAll, notifying, tasks, generator, model, cmd, fn>>

\* task t: `for range ticker.C` receives the tick its channel holds
TickerReceive(t) ==
    /\ tasks[t].pc = "waiting"
    /\ tasks[t].chan
    /\ tasks' = [tasks EXCEPT ![t].pc = "tick", ![t].chan = FALSE]
    /\ UNCHANGED <<clock, policy, notifier, state, heap, activeSecret, previousSecrets,
                   mutex, generated, persisted, errorLog, rot, rd, tok, snap, vres,
                   retiredAt, getAll, notifying, autoRotate, app, generator, model, cmd, fn>>

\* task t: RLock; shouldRotate := rm.autoRotate; RUnlock; `if !shouldRotate
\* { return }`, the deferred ticker.Stop() with it
AutoRotationCheck(t) ==
    /\ tasks[t].pc = "tick"
    /\ CanRLock
    /\ tasks' = [tasks EXCEPT ![t].pc = IF autoRotate THEN "rotate" ELSE "exited"]
    /\ UNCHANGED <<clock, policy, notifier, state, heap, activeSecret, previousSecrets,
                   mutex, generated, persisted, errorLog, rot, rd, tok, snap, vres,
                   retiredAt, getAll, notifying, autoRotate, app, generator, model, cmd, fn>>

\* the whole of RotateSecret, from Lock to the deferred Unlock, as the one step
\* it is for goroutines that lock rm.mutex themselves.  `again` tells whether
\* the caller reports the error to the notifier once more (slack.go:244-247).
RotateSecretUnderLock(genOk, storeOk, again) ==
    LET out == generateAndStoreSecret(genOk, storeOk, generated + 1, clock)
        newRef == Len(heap) + 1
        ws == demoteActive(heap, activeSecret, previousSecrets, policy.GracePeriod, clock)
    IN  /\ generated' = IF genOk THEN generated + 1 ELSE generated
        /\ persisted' = StoreWrite(persisted, genOk, storeOk, generated + 1)
        /\ IF out.err # NoErr
           THEN /\ errorLog' = IF again
                                THEN NotifyError(NotifyError(<< >>, out.err), out.err)
                                ELSE NotifyError(<< >>, out.err)
                /\ UNCHANGED <<heap, activeSecret, previousSecrets, retiredAt, notifying>>
           ELSE /\ heap' = Append(ws.heap, out.secret)
                /\ previousSecrets' = ws.previous
                /\ activeSecret' = newRef
                /\ retiredAt' = Append(IF activeSecret # NULL
                                       THEN [retiredAt EXCEPT ![activeSecret] = clock]
                                       ELSE retiredAt, 0 - 1)
                /\ notifying' = IF notifier # NilNotifier
                                THEN notifying \cup {newRef}
                                ELSE notifying
                /\ errorLog' = << >>

\* the outcomes of generator.Generate the bound on generated values leaves
GenerateOutcomes == IF GeneratedByRotation < MaxSecrets THEN BOOLEAN ELSE {FALSE}

\* a task that returns when its RotateSecret fails
AutoRotationRotate_StopsOnError(t) ==
    /\ tasks[t].pc = "rotate"
    /\ CanLock
    /\ \E genOk \in GenerateOutcomes, storeOk \in BOOLEAN :
         /\ RotateSecretUnderLock(genOk, storeOk, TRUE)
         /\ tasks' = [tasks EXCEPT ![t].pc = IF genOk /\ storeOk THEN "waiting" ELSE "exited",
                                   ![t].run = RunAfter(t, @, genOk /\ storeOk)]
    /\ UNCHANGED <<clock, policy, notifier, state, mutex, rot, rd, tok, snap, vres,
                   getAll, autoRotate, app, generator, model, cmd, fn>>

\* task t: `if _, err := rm.RotateSecret(); err != nil { NotifyError; Printf }`,
\* then back to the head of the loop
AutoRotationRotate(t) ==
    /\ tasks[t].pc = "rotate"
    /\ CanLock
    /\ \E genOk \in GenerateOutcomes, storeOk \in BOOLEAN :
         /\ RotateSecretUnderLock(genOk, storeOk, TRUE)
         /\ tasks' = [tasks EXCEPT ![t].pc = "waiting",
                                   ![t].run = RunAfter(t, @, genOk /\ storeOk)]
    /\ UNCHANGED <<clock, policy, notifier, state, mutex, rot, rd, tok, snap, vres,
                   getAll, autoRotate, app, generator, model, cmd, fn>>

(* ---------------------------- the generator ---------------------------- *)
\* the variables of the engine and of the goroutines that use it
engine == <<clock, policy, notifier, state, heap, activeSecret, previousSecrets,
            mutex, generated, persisted, errorLog, rot, rd, tok, snap, vres, retiredAt,
            getAll, notifying, autoRotate, tasks, app>>

\* a constructor without the security floor
NewRandomSecretGenerator_NoFloor ==
    /\ generator.made = "none"
    /\ \E sizeBytes \in SecretSizes :
         generator' = [generator EXCEPT !.made = "ok", !.sizeBytes = sizeBytes,
                                        !.secretSizeBytes = sizeBytes]
    /\ UNCHANGED <<engine, model, cmd, fn>>

\* NewRandomSecretGenerator(sizeBytes): an error below the floor, else
\* &RandomSecretGenerator{secretSizeBytes: sizeBytes}
NewRandomSecretGenerator ==
    /\ generator.made = "none"
    /\ \E sizeBytes \in SecretSizes :
         generator' = IF sizeBytes < MinSecretSize
                      THEN [generator EXCEPT !.made = "error", !.sizeBytes = sizeBytes,
                                             !.err = ErrSecretSize]
                      ELSE [generator EXCEPT !.made = "ok", !.sizeBytes = sizeBytes,
                                             !.secretSizeBytes = sizeBytes]
    /\ UNCHANGED <<engine, model, cmd, fn>>

\* a Generate that returns one byte less than configured
Generate_Short ==
    /\ generator.made = "ok"
    /\ \E readOk \in BOOLEAN :
         generator' = IF readOk
                      THEN [generator EXCEPT !.value = generator.secretSizeBytes - 1, !.generr = NoErr]
                      ELSE [generator EXCEPT !.value = 0 - 1, !.generr = ErrRandom]
    /\ UNCHANGED <<engine, model, cmd, fn>>

\* g.Generate(), as generateAndStoreSecret calls it for the Value of a new
\* secret: bytes := make([]byte, g.secretSizeBytes); rand.Read(bytes) fills it
\* or fails; the value is returned as it is (its length is what is recorded)
Generate ==
    /\ generator.made = "ok"
    /\ \E readOk \in BOOLEAN :
         generator' = IF readOk
                      THEN [generator EXCEPT !.value = generator.secretSizeBytes, !.generr = NoErr]
                      ELSE [generator EXCEPT !.value = 0 - 1, !.generr = ErrRandom]
    /\ UNCHANGED <<engine, model, cmd, fn>>

(* ------------------------- the terminal program ------------------------ *)
\* the keys the handlers tell apart: the arrows, space, enter, backspace and a
\* printable character ("ctrl+c" and "q" end the program)
Keys == {"up", "down", " ", "enter", "backspace", "x"}

\* textinput.Model.Update(msg): a focused input takes the character typed or
\* loses its last one; the model keeps a value up to its first character
InputUpdate(input, key) ==
    IF ~input.focus THEN input
    ELSE IF key = "x" THEN [input EXCEPT !.value = IF @ = EmptyString THEN Typed ELSE @]
    ELSE IF key = "backspace" THEN [input EXCEPT !.value = EmptyString]
    ELSE input

\* m.configInputs[i].Focus() for a 0-based i
Focus(inputs, i) == [inputs EXCEPT ![i + 1].focus = TRUE]

\* the config map runRotation, checkStatus and generateScriptCmd build:
\* config[strings.ToLower(strings.ReplaceAll(input.Placeholder, " ", ""))] = input.Value()
ConfigKey(input) == ToLower(ReplaceAll(input.Placeholder, " "))
ConfigOf(inputs) ==
    [k \in { ConfigKey(inputs[i]) : i \in 1..Len(inputs) } |->
        LET last == CHOOSE i \in 1..Len(inputs) :
                        /\ ConfigKey(inputs[i]) = k
                        /\ \A j \in 1..Len(inputs) : ConfigKey(inputs[j]) = k => j <= i
        IN inputs[last].value]

\* v, ok := config[key]; !ok || v == ""
Missing(config, key) == key \notin DOMAIN config \/ config[key] = EmptyString

\* GCPSecretManager.Setup(ctx, config)
GCPSetup(config, clientOk) ==
    IF Missing(config, KeyProjectID) THEN ErrProjectIDRequired
    ELSE IF Missing(config, KeySecretID) THEN ErrSecretIDRequiredGCP
    ELSE IF ~clientOk THEN ErrClient
    ELSE NoErr

\* AWSSecretsManager.Setup(ctx, configMap)
AWSSetup(config, clientOk) ==
    IF Missing(config, KeySecretID) THEN ErrSecretIDRequiredAWS
    ELSE IF Missing(config, KeyRegion) THEN ErrRegionRequired
    ELSE IF ~clientOk THEN ErrClient
    ELSE NoErr

\* AzureKeyVault.Setup(ctx, config)
AzureSetup(config, clientOk) ==
    IF Missing(config, KeyVaulturi) THEN ErrVaultURIRequired
    ELSE IF Missing(config, KeySecretname) THEN ErrSecretNameRequired
    ELSE IF ~clientOk THEN ErrClient
    ELSE NoErr

\* storageProvider.Setup(ctx, config) of the adapter chosen for provider
Setup(provider, config, clientOk) ==
    CASE provider = "GCP" -> GCPSetup(config, clientOk)
      [] provider = "AWS" -> AWSSetup(config, clientOk)
      [] provider = "Azure" -> AzureSetup(config, clientOk)

\* a started tea.Cmd
Started(name) == [name |-> name, pc |-> "running", config |-> << >>, err |-> NoErr]

updateChoosingAction ==
    /\ model.state = "choosingAction"
    /\ \E key \in Keys :
         model' = CASE key = "up" -> IF model.cursor > 0 THEN [model EXCEPT !.cursor = @ - 1] ELSE model
                    [] key = "down" -> IF model.cursor < 1 THEN [model EXCEPT !.cursor = @ + 1] ELSE model
                    [] key = "enter" -> [model EXCEPT !.initialAction = initialActions[model.cursor + 1],
                                                      !.state = "choosingProvider",
                                                      !.cursor = 0]
                    [] OTHER -> model
    /\ UNCHANGED <<engine, generator, cmd, fn>>

updateChoosingProvider ==
    /\ model.state = "choosingProvider"
    /\ \E key \in Keys :
         model' = CASE key = "up" -> IF model.cursor > 0 THEN [model EXCEPT !.cursor = @ - 1] ELSE model
                    [] key = "down" -> IF model.cursor < Len(providerChoices) - 1
                                       THEN [model EXCEPT !.cursor = @ + 1] ELSE model
                    [] key = "enter" -> [model EXCEPT !.provider = providerChoices[model.cursor + 1],
                                                      !.state = "enteringConfig",
                                                      !.cursor = 0,
                                                      !.configInputs = setupConfigInputs(providerChoices[model.cursor + 1])]
                    [] OTHER -> model
    /\ UNCHANGED <<engine, generator, cmd, fn>>

\* the cursor and the focus after a key of updateEnteringConfig that does not
\* leave the state
EnteringConfigMove(key) ==
    LET n == Len(model.configInputs)
        c == model.cursor
    IN CASE key = "enter" ->
              IF c < n - 1
              THEN [model EXCEPT !.cursor = c + 1, !.configInputs = Focus(@, c + 1)]
              ELSE [model EXCEPT !.cursor = c + 1]
         [] key = "up" ->
              IF c > 0
              THEN IF c - 1 < n
                   THEN [model EXCEPT !.cursor = c - 1, !.configInputs = Focus(@, c - 1)]
                   ELSE [model EXCEPT !.cursor = c - 1]
              ELSE model
         [] key = "down" ->
              IF c < n
              THEN IF c + 1 < n
                   THEN [model EXCEPT !.cursor = c + 1, !.configInputs = Focus(@, c + 1)]
                   ELSE [model EXCEPT !.cursor = c + 1]
              ELSE model
         [] OTHER -> model

updateEnteringConfig ==
    /\ model.state = "enteringConfig"
    /\ \E key \in Keys :
         IF key = "enter" /\ model.cursor = Len(model.configInputs)
         THEN IF model.initialAction = "actionCheckStatus"
              THEN /\ model' = [model EXCEPT !.state = "rotating"]
                   /\ cmd' = Started("checkStatus")
              ELSE /\ model' = [model EXCEPT !.state = "choosingNotifier", !.cursor = 0]
                   /\ UNCHANGED cmd
         ELSE /\ model' = [EnteringConfigMove(key) EXCEPT
                              !.configInputs = [i \in 1..Len(@) |-> InputUpdate(@[i], key)]]
              /\ UNCHANGED cmd
    /\ UNCHANGED <<engine, generator, fn>>

\* an updateChoosingNotifier whose cursor stops on the last notifier
updateChoosingNotifier_StopsAtLast ==
    /\ model.state = "choosingNotifier"
    /\ \E key \in Keys :
         model' = CASE key = "up" -> IF model.cursor > 0 THEN [model EXCEPT !.cursor = @ - 1] ELSE model
                    [] key = "down" -> IF model.cursor < Len(notifierChoices) - 1
                                       THEN [model EXCEPT !.cursor = @ + 1] ELSE model
                    [] key = " " -> IF model.cursor \in model.selectedNotifiers
                                    THEN [model EXCEPT !.selectedNotifiers = @ \ {model.cursor}]
                                    ELSE [model EXCEPT !.selectedNotifiers = @ \cup {model.cursor}]
                    [] key = "enter" -> [model EXCEPT !.state = "choosingMode", !.cursor = 0]
                    [] OTHER -> model
    /\ UNCHANGED <<engine, generator, cmd, fn>>

updateChoosingNotifier ==
    /\ model.state = "choosingNotifier"
    /\ \E key \in Keys :
         model' = CASE key = "up" -> IF model.cursor > 0 THEN [model EXCEPT !.cursor = @ - 1] ELSE model
                    [] key = "down" -> IF model.cursor < Len(notifierChoices)
                                       THEN [model EXCEPT !.cursor = @ + 1] ELSE model
                    [] key = " " -> IF model.cursor \in model.selectedNotifiers
                                    THEN [model EXCEPT !.selectedNotifiers = @ \ {model.cursor}]
                                    ELSE [model EXCEPT !.selectedNotifiers = @ \cup {model.cursor}]
                    [] key = "enter" -> [model EXCEPT !.state = "choosingMode", !.cursor = 0]
                    [] OTHER -> model
    /\ UNCHANGED <<engine, generator, cmd, fn>>

updateChoosingMode ==
    /\ model.state = "choosingMode"
    /\ \E key \in Keys :
         CASE key = "up" -> /\ model' = IF model.cursor > 0 THEN [model EXCEPT !.cursor = @ - 1] ELSE model
                            /\ UNCHANGED cmd
           [] key = "down" -> /\ model' = IF model.cursor < 1 THEN [model EXCEPT !.cursor = @ + 1] ELSE model
                              /\ UNCHANGED cmd
           [] key = "enter" ->
                IF model.cursor = 0
                THEN /\ model' = [model EXCEPT !.executionMode = "runOnce", !.state = "rotating"]
                     /\ cmd' = Started("runRotation")
                ELSE /\ model' = [model EXCEPT !.executionMode = "runPeriodic", !.state = "generatingScript"]
                     /\ cmd' = Started("generateScriptCmd")
           [] OTHER -> UNCHANGED <<model, cmd>>
    /\ UNCHANGED <<engine, generator, fn>>

\* the keys of m.selectedNotifiers that m.notifierChoices[i] cannot index
OutOfRange(selected) == { i \in selected : i < 0 \/ i >= Len(notifierChoices) }

\* the function runRotation(m) returns, run by the program: the config map,
\* Setup, `for i := range m.selectedNotifiers { switch m.notifierChoices[i]`
\* (a runtime panic on an index out of range), NewJWTManager and RotateSecret
runRotationMsg ==
    /\ cmd.name = "runRotation"
    /\ cmd.pc = "running"
    /\ \E clientOk \in BOOLEAN, rotateOk \in BOOLEAN :
         LET config == ConfigOf(model.configInputs)
             err == Setup(model.provider, config, clientOk)
         IN cmd' = IF err # NoErr
                   THEN [cmd EXCEPT !.pc = "returned", !.config = config, !.err = err]
                   ELSE IF OutOfRange(model.selectedNotifiers) # {}
                   THEN [cmd EXCEPT !.pc = "panicked", !.config = config]
                   ELSE [cmd EXCEPT !.pc = "returned", !.config = config,
                                    !.err = IF rotateOk THEN NoErr ELSE ErrRotation]
    /\ UNCHANGED <<engine, generator, model, fn>>

\* the function checkStatus(m) returns: the config map, Setup, GetLatest
checkStatusMsg ==
    /\ cmd.name = "checkStatus"
    /\ cmd.pc = "running"
    /\ \E clientOk \in BOOLEAN, latestOk \in BOOLEAN :
         LET config == ConfigOf(model.configInputs)
             err == Setup(model.provider, config, clientOk)
         IN cmd' = [cmd EXCEPT !.pc = "returned", !.config = config,
                               !.err = IF err # NoErr THEN err
                                       ELSE IF latestOk THEN NoErr ELSE ErrGetLatest]
    /\ UNCHANGED <<engine, generator, model, fn>>

\* the function generateScriptCmd(m) returns: the config map, GenerateScript
\* and os.WriteFile
generateScriptMsg ==
    /\ cmd.name = "generateScriptCmd"
    /\ cmd.pc = "running"
    /\ \E writeOk \in BOOLEAN :
         cmd' = [cmd EXCEPT !.pc = "returned", !.config = ConfigOf(model.configInputs),
                            !.err = IF writeOk THEN NoErr ELSE ErrScript]
    /\ UNCHANGED <<engine, generator, model, fn>>

\* Update(msg) for the message of a command: *rotationErrMsg, or *rotationMsg,
\* *statusMsg, *scriptGeneratedMsg
UpdateMsg ==
    /\ cmd.pc = "returned"
    /\ model' = IF cmd.err # NoErr
                THEN [model EXCEPT !.state = "appError", !.message = <<"Error during rotation: ", cmd.err>>]
                ELSE [model EXCEPT !.state = "done", !.message = <<cmd.name>>]
    /\ cmd' = [cmd EXCEPT !.pc = "delivered"]
    /\ UNCHANGED <<engine, generator, fn>>

\* model.Update on a key or on a command's message, and the commands it starts
NextTUI ==
    \/ updateChoosingAction
    \/ updateChoosingProvider
    \/ updateEnteringConfig
    \/ updateChoosingNotifier
    \/ updateChoosingMode
    \/ runRotationMsg
    \/ checkStatusMsg
    \/ generateScriptMsg
    \/ UpdateMsg

(* ----------------------- the serverless handlers ----------------------- *)
\* a config map with two entries
Config2(k1, v1, k2, v2) == [k \in {k1, k2} |-> IF k = k1 THEN v1 ELSE v2]

\* what a handler returns after its Setup: NewJWTManager and RotateSecret
AfterSetup(err, rotateOk) == IF err # NoErr THEN err ELSE IF rotateOk THEN NoErr ELSE ErrRotation

\* HandleRequest of the AWS Lambda: "secretID" and "region" from the environment
HandleRequest ==
    /\ \E secretID \in InputValues, region \in InputValues, clientOk \in BOOLEAN, rotateOk \in BOOLEAN :
         LET config == Config2(KeySecretID, secretID, KeyRegion, region)
         IN fn' = [handler |-> "HandleRequest", config |-> config,
                   err |-> AfterSetup(AWSSetup(config, clientOk), rotateOk)]
    /\ UNCHANGED <<engine, generator, model, cmd>>

\* RotateSecret of the Google Cloud Function: "projectID" and "secretID"
RotateSecretFunction ==
    /\ \E projectID \in InputValues, secretID \in InputValues, clientOk \in BOOLEAN, rotateOk \in BOOLEAN :
         LET config == Config2(KeyProjectID, projectID, KeySecretID, secretID)
         IN fn' = [handler |-> "RotateSecret", config |-> config,
                   err |-> AfterSetup(GCPSetup(config, clientOk), rotateOk)]
    /\ UNCHANGED <<engine, generator, model, cmd>>

\* Run of the Azure Function: "vaultURI" and "secretName"
Run ==
    /\ \E vaultURI \in InputValues, secretName \in InputValues, clientOk \in BOOLEAN, rotateOk \in BOOLEAN :
         LET config == Config2(KeyVaultURI, vaultURI, KeySecretName, secretName)
         IN fn' = [handler |-> "Run", config |-> config,
                   err |-> AfterSetup(AzureSetup(config, clientOk), rotateOk)]
    /\ UNCHANGED <<engine, generator, model, cmd>>

(* --------------------------- specifications ---------------------------- *)
\* RotateSecret called by p
RotateSecret(p) ==
    \/ RotateSecretCall(p)
    \/ RotateSecretLock(p)
    \/ RotateSecretGenerateAndStore(p)
    \/ RotateSecretFail(p)
    \/ RotateSecretCommit(p)

\* ValidateToken called by q
ValidateToken(q) ==
    \/ ValidateTokenStart(q)
    \/ ValidateTokenGetSecrets(q)
    \/ ValidateTokenFinish(q)

\* SignToken, GetSecrets and ValidateToken called by q
Read(q) ==
    \/ SignTokenRLock(q)
    \/ SignTokenRead(q)
    \/ SignTokenSign(q)
    \/ GetSecretsRLock(q)
    \/ GetSecretsRead(q)
    \/ ValidateToken(q)

\* one application goroutine that rotates and one that reads, over time, with
\* notifiers that have not returned yet
Next ==
    \/ NewRotationManager
    \/ Tick
    \/ RotateSecret("caller")
    \/ Read(Followed)

Spec == Init /\ [][Next]_vars

\* the engine NewRotationManager returns for a store that holds one record
InitConcurrent ==
    /\ clock = 0
    /\ policy = [GracePeriod |-> MaxGrace, RotationInterval |-> 0]
    /\ notifier = "multi"
    /\ state = "ready"
    /\ heap = <<Secret(generateSecretId(0 - 1), 0 - 1, 0, TRUE)>>
    /\ activeSecret = 1
    /\ previousSecrets = << >>
    /\ mutex = [writer |-> FALSE, readers |-> 0, pending |-> FALSE]
    /\ generated = 0
    /\ persisted = {0 - 1}
    /\ errorLog = << >>
    /\ rot = [p \in Rotators |-> RotIdle]
    /\ rd = [q \in Readers |-> RdIdle]
    /\ tok = NoToken
    /\ snap = NoSnap
    /\ vres = NoResult
    /\ retiredAt = <<0 - 1>>
    /\ getAll = "records"
    /\ notifying = {}
    /\ autoRotate = FALSE
    /\ tasks = << >>
    /\ app = AppIdle
    /\ generator = NoGenerator
    /\ model = initialModel
    /\ cmd = NoCmd
    /\ fn = NoCall

\* every rotator and every reader at once, at one instant (so that no secret
\* ages), with notifiers that have not returned yet
NextConcurrent ==
    \/ \E p \in Rotators : RotateSecret(p) \/ RotateSecretWake(p)
    \/ \E q \in Readers : Read(q)

SpecConcurrent == InitConcurrent /\ [][NextConcurrent]_vars

\* one goroutine that rotates and one that reads, at one instant, with
\* NotifyRotation goroutines that return at any later moment or never
NextNotifier ==
    \/ RotateSecret("caller")
    \/ NotifyRotationReturn
    \/ Read(Followed)

SpecNotifier == InitConcurrent /\ [][NextNotifier]_vars

\* one goroutine that rotates and one that validates the tokens presented to
\* it, at one instant
NextPresented ==
    \/ NewRotationManager
    \/ RotateSecret("caller")
    \/ PresentToken
    \/ ValidateToken(Followed)

SpecPresented == Init /\ [][NextPresented]_vars

\* the engine NewRotationManager returns for an empty store, with a policy that
\* has a rotation interval
InitAuto ==
    /\ clock = 0
    /\ policy \in [GracePeriod : GracePeriods, RotationInterval : RotationIntervals]
    /\ notifier = "multi"
    /\ state = "ready"
    /\ heap = <<Secret(generateSecretId(1), 1, 0, TRUE)>>
    /\ activeSecret = 1
    /\ previousSecrets = << >>
    /\ mutex = [writer |-> FALSE, readers |-> 0, pending |-> FALSE]
    /\ generated = 1
    /\ persisted = {1}
    /\ errorLog = << >>
    /\ rot = [p \in Rotators |-> RotIdle]
    /\ rd = [q \in Readers |-> RdIdle]
    /\ tok = NoToken
    /\ snap = NoSnap
    /\ vres = NoResult
    /\ retiredAt = <<0 - 1>>
    /\ getAll = "empty"
    /\ notifying = {}
    /\ autoRotate = FALSE
    /\ tasks = << >>
    /\ app = AppIdle
    /\ generator = NoGenerator
    /\ model = initialModel
    /\ cmd = NoCmd
    /\ fn = NoCall

StartAutoRotation == StartAutoRotationLock \/ StartAutoRotationBody
StopAutoRotation == StopAutoRotationLock \/ StopAutoRotationBody
BackgroundTask(t) == TickerReceive(t) \/ AutoRotationCheck(t) \/ AutoRotationRotate(t)

\* an application that starts and stops auto-rotation, over time, with the
\* goroutines it has started
NextAuto ==
    \/ Tick
    \/ StartAutoRotation
    \/ StopAutoRotation
    \/ \E t \in DOMAIN tasks : BackgroundTask(t)

SpecAuto == InitAuto /\ [][NextAuto]_vars

\* runRotation (and HandleRequest of the serverless handlers): after
\* NewJWTManager has returned a manager, one RotateSecret call
runRotation == ~rot["caller"].returned /\ RotateSecret("caller")

\* one "Run once" execution, against any store
NextRunOnce ==
    \/ NewRotationManager
    \/ runRotation

SpecRunOnce == Init /\ [][NextRunOnce]_vars

\* one generator: constructed with any size, then asked for values
NextGenerator ==
    \/ NewRandomSecretGenerator
    \/ Generate

SpecGenerator == Init /\ [][NextGenerator]_vars

\* the terminal program, from initialModel() on
SpecTUI == Init /\ [][NextTUI]_vars

\* every program that builds a config map for a storage adapter
NextCallers ==
    \/ NextTUI
    \/ HandleRequest
    \/ RotateSecretFunction
    \/ Run

SpecCallers == Init /\ [][NextCallers]_vars

TypeOK ==
    /\ clock \in 0..MaxTime
    /\ state \in {"new", "ready", "failed"}
    /\ activeSecret \in 0..Len(heap)
    /\ Range(previousSecrets) \subseteq 1..Len(heap)
    /\ Len(retiredAt) = Len(heap)
    /\ mutex.readers \in 0..(2 * MaxReaders)
    /\ generated \in 0..(MaxSecrets + Cardinality(Rotators))

(* ------------------------------ claims --------------------------------- *)
\* RotateSecret has just returned an error / a secret
RotateFailed == rot["caller"].pc = "idle" /\ rot["caller"].returned /\ rot["caller"].err # NoErr
RotateSucceeded == rot["caller"].pc = "idle" /\ rot["caller"].returned /\ rot["caller"].err = NoErr

\* the positions of a slice of secrets whose secret reads Active = true
ActiveIn(secrets) == { i \in 1..Len(secrets) : heap[secrets[i]].Active }

\* C1: when generator.Generate or storage.Store fails in RotateSecret, the
\* active secret, the previous list and every secret's Active flag are what they
\* were before the call, nil and the error are returned, and NotifyError was
\* called with that error.
C1_FailedRotationChangesNothing ==
    RotateFailed =>
        /\ <<heap, activeSecret, previousSecrets>> = rot["caller"].pre
        /\ rot["caller"].secret = NULL
        /\ rot["caller"].err \in {ErrGenerate, ErrStore}
        /\ rot["caller"].err \in Range(errorLog)

C1_Witness ==
    /\ RotateFailed
    /\ rot["caller"].err = ErrStore
    /\ previousSecrets # << >>

\* C2: right after a successful RotateSecret exactly one secret of the working
\* set has Active = true, it is the new secret, and its ID differs from the ID
\* of every previous secret.
C2_OneActiveAfterRotation ==
    RotateSucceeded =>
        /\ Cardinality(ActiveIn(GetSecretsValue)) = 1
        /\ activeSecret = rot["caller"].secret
        /\ heap[rot["caller"].secret].Active
        /\ \A p \in Range(previousSecrets) : heap[p].ID # heap[rot["caller"].secret].ID

C2_Witness ==
    /\ RotateSucceeded
    /\ previousSecrets # << >>

\* C3: persist before promote: the secret a reader can or did observe as the
\* active one (rm.activeSecret, the one SignToken read, the head of the slice
\* GetSecrets returned) is one whose Store succeeded or that GetAll loaded.
C3_PersistBeforePromote ==
    /\ activeSecret # NULL => heap[activeSecret].Value \in persisted
    /\ rd[Followed].act # NULL => heap[rd[Followed].act].Value \in persisted
    /\ snap.secrets # << >> => heap[Head(snap.secrets)].Value \in persisted

\* SignToken has read the active secret after a RotateSecret whose Store failed
\* has returned: the generated value is neither persisted nor promoted
C3_Witness ==
    /\ rd[Followed].pc = "sign_sign"
    /\ rd[Followed].act # NULL
    /\ RotateFailed
    /\ rot["caller"].err = ErrStore
    /\ \E v \in 1..generated : v \notin persisted /\ heap[rd[Followed].act].Value # v

\* C4: with gracePeriod g > 0, right after each successful rotation every
\* previous secret has now - CreatedAt <= g, and every secret with
\* now - CreatedAt > g is absent from previousSecrets.
C4_PreviousWithinGrace ==
    (RotateSucceeded /\ policy.GracePeriod > 0) =>
        /\ \A p \in Range(previousSecrets) : clock - heap[p].CreatedAt <= policy.GracePeriod
        /\ \A r \in 1..Len(heap) :
             clock - heap[r].CreatedAt > policy.GracePeriod => r \notin Range(previousSecrets)

\* a rotation that kept one previous secret and dropped another
C4_Witness ==
    /\ RotateSucceeded
    /\ policy.GracePeriod > 0
    /\ previousSecrets # << >>
    /\ Len(heap) > Len(previousSecrets) + 1

\* C5: the grace period is measured from retirement: a secret that stopped
\* being active at time t is in previousSecrets at every instant before
\* t + gracePeriod, however long it had been active.
C5_GraceFromRetirement ==
    \A r \in 1..Len(heap) :
        (policy.GracePeriod > 0 /\ retiredAt[r] >= 0
            /\ clock < retiredAt[r] + policy.GracePeriod)
        => r \in Range(previousSecrets)

C7_ValidInsideGrace ==
    (vres.done /\ vres.rots = 1 /\ vres.inGraceAtRot) => (vres.ok /\ vres.claims = tok.asked)

C7_Witness ==
    /\ vres.done
    /\ vres.rots = 1
    /\ vres.inGraceAtRot
    /\ policy.GracePeriod > 0
    /\ vres.ok

\* C8: once a successful rotation has happened at which the age of the token's
\* signing secret exceeded gracePeriod (> 0), ValidateToken of the token fails
\* with the kid-not-found error.
C8_ExpiryByRotation ==
    (vres.done /\ vres.expiredRot) => (~vres.ok /\ vres.err = ErrKidNotFound)

C8_Witness ==
    /\ vres.done
    /\ vres.expiredRot
    /\ vres.err = ErrKidNotFound

\* C9: with gracePeriod g > 0, after one rotation has demoted the secret S1 that
\* signed the token before that rotation, and the clock has advanced so that
\* S1's age exceeds g (no further rotation), ValidateToken of the token fails with the kid-not-found error.
C9_ExpiryByTime ==
    (vres.done /\ vres.rots = 1 /\ tok.signedAtRot /\ policy.GracePeriod > 0
        /\ clock - heap[tok.signer].CreatedAt > policy.GracePeriod)
    => (~vres.ok /\ vres.err = ErrKidNotFound)

\* C10: the slice GetSecrets returned holds exactly one secret that reads
\* Active = true, for as long as its holder reads it, rotations included.
C10_SnapshotHasOneActive ==
    snap.taken => Cardinality(ActiveIn(snap.secrets)) = 1

\* the engine as NewRotationManager built it from stored records: nothing has
\* been generated since, so the heap holds the loaded records and no others
LoadedFromStore == state = "ready" /\ generated = 0 /\ Len(heap) > 0

\* C11: after NewRotationManager has loaded a non-empty store, whatever the
\* order GetAll returned the records in, the active secret is the record with
\* the latest CreatedAt and has Active = true, and every other record is in
\* previousSecrets with Active = false.
C11_LatestRecordActive ==
    LoadedFromStore =>
        /\ \A r \in 1..Len(heap) : heap[activeSecret].CreatedAt >= heap[r].CreatedAt
        /\ heap[activeSecret].Active
        /\ Range(previousSecrets) = (1..Len(heap)) \ {activeSecret}
        /\ \A p \in Range(previousSecrets) : ~heap[p].Active

\* the engine NewRotationManager has just returned: no RotateSecret call yet
FreshEngine == state = "ready" /\ clock = 0 /\ (\A p \in Rotators : rot[p] = RotIdle)

\* C12: when GetAll returned no record or an error, NewRotationManager runs one
\* generate-and-store cycle, and on its success the engine it returns has the
\* generated secret as its active secret, with Active = true, and no previous secret.
C12_InitByGeneration ==
    /\ (state # "new" /\ getAll \in {"empty", "error"} /\ clock = 0 /\ (\A p \in Rotators : rot[p] = RotIdle))
           => generated <= 1 /\ persisted \subseteq {1}
    /\ (FreshEngine /\ getAll \in {"empty", "error"}) =>
           /\ generated = 1
           /\ persisted = {1}
           /\ activeSecret = 1
           /\ heap = <<Secret(generateSecretId(1), 1, 0, TRUE)>>
           /\ previousSecrets = << >>

C12_Witness ==
    /\ FreshEngine
    /\ getAll = "error"
    /\ activeSecret # NULL
    /\ heap[activeSecret].Active

\* C13: when generating or storing the initial secret fails, NewRotationManager
\* has called NotifyError with the error, and returns an error and no engine.
C13_InitFailureReported ==
    state = "failed" =>
        /\ getAll \in {"empty", "error"}
        /\ Len(errorLog) = 1
        /\ errorLog[1] \in {ErrGenerate, ErrStore}
        /\ (errorLog[1] = ErrStore) = (generated = 1)
        /\ activeSecret = NULL
        /\ heap = << >>

C13_Witness ==
    /\ state = "failed"
    /\ errorLog = <<ErrStore>>

\* C14: SignToken fails with the no-active-secret error when it read no active
\* secret; otherwise the kid of the token it returns is the ID of a secret that
\* was active at some instant of the call, and the signature is the MAC under
\* that same secret's Value, rotations during the call included.
C14_SignsWithOneActiveSecret ==
    /\ tok.err # NoErr => (tok.err = ErrNoActive /\ tok.signer = NULL /\ tok.alg = NoAlg)
    /\ (rd[Followed].pc = "idle" /\ tok.signer = NULL /\ tok # NoToken) => tok.err = ErrNoActive
    /\ (tok.alg = "HS256" /\ tok.signer # NULL) =>
          \E s \in tok.during :
              /\ tok.kid = heap[s].ID
              /\ tok.sig = HMACSign(heap[s].Value, "HS256", heap[s].ID, tok.claims)

\* a token signed after a rotation had replaced the secret SignToken read
C14_Witness ==
    /\ tok.alg = "HS256"
    /\ Cardinality(tok.during) = 2
    /\ tok.signer # activeSecret
    /\ tok.kid = heap[tok.signer].ID

\* C15: ValidateToken answers a token whose alg header is no HMAC method with
\* the signing-method error, without having taken the read lock or read any
\* secret; no such token is ever inside ValidateToken's read section.
C15_RejectsNonHMACBeforeLock ==
    /\ rd[Followed].pc \in {"val_getsecrets", "val_scan"} => tok.alg \in HMACMethods
    /\ (vres.done /\ tok.alg \notin HMACMethods) =>
          /\ ~vres.ok
          /\ vres.err \in {ErrMethod, ErrUnavailable}
          /\ ~vres.locked
          /\ vres.read = << >>

\* an alg "none" token that names the active secret's kid
C15_Witness ==
    /\ vres.done
    /\ tok.alg = "none"
    /\ tok.kid = heap[activeSecret].ID
    /\ vres.err = ErrMethod
    /\ mutex.readers = 0

\* C16: ValidateToken of an HMAC token whose kid header is absent or no string
\* fails with an error other than the kid-not-found error of an unmatched kid.
C16_MissingKidIsMalformed ==
    (vres.done /\ tok.alg \in HMACMethods /\ ~IsStringKid(tok.kid))
    => (~vres.ok /\ vres.err # ErrKidNotFound)

\* C17: for an HMAC token with a string kid k, the key is the Value of the first
\* secret with ID = k in the slice read, which is the active secret followed by
\* previousSecrets in list order; with no such secret the result is the
\* kid-not-found error, and when that key does not verify the signature the
\* result is the signature error, whatever the other secrets are.
C17_FirstMatchingKey ==
    (vres.done /\ vres.locked /\ IsStringKid(tok.kid)) =>
        /\ activeSecret \in Range(vres.read)
              => vres.read = <<activeSecret>> \o previousSecrets
        /\ LET m == { i \in 1..Len(vres.read) : heap[vres.read[i]].ID = tok.kid }
           IN  IF m = {} THEN ~vres.ok /\ vres.err = ErrKidNotFound
               ELSE LET first == CHOOSE i \in m : \A j \in m : i <= j
                        key == heap[vres.read[first]].Value
                    IN  IF tok.sig = HMACSign(key, tok.alg, tok.kid, tok.claims)
                        THEN vres.ok /\ vres.err = NoErr /\ vres.claims = tok.claims
                        ELSE ~vres.ok /\ vres.err = ErrSignature

\* a token signed with the second of two secrets that share the kid
C17_Witness ==
    /\ vres.done
    /\ vres.err = ErrSignature
    /\ \E j \in 2..Len(vres.read) :
          /\ heap[vres.read[j]].ID = tok.kid
          /\ tok.sig = HMACSign(heap[vres.read[j]].Value, tok.alg, tok.kid, tok.claims)

\* reader q is between its RLock and its RUnlock
ReadSection(q) == rd[q].pc \in {"sign_read", "get_read", "val_getsecrets", "val_scan"}

\* rotator p is between its Lock and its Unlock
WriteSection(p) == rot[p].pc \in {"generate", "generated"}

LockExclusion ==
    /\ \A q \in Readers : ReadSection(q) => (mutex.readers >= 1 /\ ~mutex.writer)
    /\ \A p \in Rotators : WriteSection(p) => (mutex.writer /\ mutex.readers = 0)
    /\ \A p \in Rotators, q \in Readers : ~(ReadSection(q) /\ WriteSection(p))
    /\ \A p1, p2 \in Rotators : (WriteSection(p1) /\ WriteSection(p2)) => p1 = p2

\* C18: a reader (SignToken, ValidateToken, GetSecrets) is inside its read
\* section only with the shared lock held and no writer, a RotateSecret is
\* inside its write section only with the exclusive lock held and no reader,
\* no reader is in its read section while a RotateSecret is in its write
\* section, no two RotateSecret calls are in their write sections at once, and
\* activeSecret and previousSecrets change only in a step taken with the
\* exclusive lock held.
C18_ReaderWriterExclusion ==
    /\ []LockExclusion
    /\ [][(activeSecret' # activeSecret \/ previousSecrets' # previousSecrets)
            => (mutex.writer /\ mutex.readers = 0)]_vars

\* two readers overlap in their read sections while one RotateSecret waits
\* for them to leave and the other waits behind it
C18_Witness ==
    /\ \A q \in Readers : ReadSection(q)
    /\ mutex.readers >= 2
    /\ \E p1, p2 \in Rotators : rot[p1].pc = "lock" /\ rot[p2].pc = "call"

\* C19: generator.Generate, storage.Store and notifier.NotifyError are never
\* executed by a step taken while the exclusive lock is held: a step that
\* generates a secret, writes the store or reports an error starts in a state
\* where no writer holds rm.mutex.
C19_NoStoreOrNotifyUnderLock ==
    [][(generated' # generated \/ persisted' # persisted
          \/ (errorLog' # errorLog /\ errorLog' # << >>))
       => ~mutex.writer]_vars

\* C20: while the NotifyRotation goroutine of a rotation has not returned,
\* the RotateSecret call that started it has returned the new secret with a
\* nil error and holds no lock, the new secret is the active one, and a reader
\* or rotator that is about to lock rm.mutex is not kept out by the notifier.
C20_ReturnsWithoutWaitingForNotifier ==
    \A p \in Rotators :
        (rot[p].secret # NULL /\ rot[p].secret \in notifying) =>
            /\ rot[p].pc = "idle"
            /\ rot[p].returned
            /\ rot[p].err = NoErr
            /\ activeSecret = rot[p].secret
            /\ ~mutex.writer
            /\ (\A r \in Rotators : rot[r].pc = "idle") => (CanRLock /\ WriterFree)

\* a token signed with the new secret and validated while NotifyRotation has
\* still not returned
C20_Witness ==
    /\ RotateSucceeded
    /\ rot["caller"].secret \in notifying
    /\ rd[Followed].pc = "idle"
    /\ tok.signer = rot["caller"].secret
    /\ vres.done /\ vres.ok

\* the goroutines of StartAutoRotation that have not returned
LiveTasks == { t \in DOMAIN tasks : tasks[t].pc # "exited" }

\* C21: for every sequence of StartAutoRotation and StopAutoRotation calls
\* with a positive interval, at most one background rotation goroutine is
\* live at any time, so that an elapsed interval triggers one scheduled
\* RotateSecret call and no more.
C21_AtMostOneLiveTask == Cardinality(LiveTasks) <= 1

\* the application's last call was StopAutoRotation, and it has returned
Stopped == app.pc = "idle" /\ app.op = "StopAutoRotation"

\* C22: once StopAutoRotation has returned and StartAutoRotation has not been
\* called again, no background goroutine starts a scheduled RotateSecret call.
C22_NoRotationAfterStop ==
    [][\A t \in DOMAIN tasks :
          (tasks[t].pc = "rotate" /\ tasks'[t].pc # "rotate") => ~Stopped]_vars

\* C23: StartAutoRotation with rotationInterval <= 0 returns the interval
\* error, starts no goroutine and leaves autoRotate and the working set as
\* they were; under such a policy there is never a background goroutine.
C23_NonPositiveIntervalRejected ==
    /\ [](policy.RotationInterval <= 0 => (tasks = << >> /\ ~autoRotate))
    /\ [][(app.pc = "start" /\ app'.pc = "idle" /\ policy.RotationInterval <= 0)
            => /\ app'.err = ErrInterval
               /\ tasks' = tasks
               /\ autoRotate' = autoRotate
               /\ UNCHANGED <<heap, activeSecret, previousSecrets>>]_vars

\* a StartAutoRotation that has returned the interval error
C23_Witness ==
    /\ policy.RotationInterval <= 0
    /\ app.pc = "idle"
    /\ app.op = "StartAutoRotation"
    /\ app.err = ErrInterval

\* C24: StopAutoRotation leaves autoRotate false and changes nothing else of
\* the engine (working set, store, goroutines); called when autoRotate is
\* already false, after an earlier StopAutoRotation or before any
\* StartAutoRotation, it changes nothing at all.
C24_StopIsIdempotent ==
    [][(app.pc = "stop" /\ app'.pc = "idle")
         => /\ ~autoRotate'
            /\ (app.op # "StartAutoRotation" => autoRotate' = autoRotate)
            /\ UNCHANGED <<heap, activeSecret, previousSecrets, tasks, persisted,
                           generated, policy, notifier, errorLog, notifying>>]_vars

\* StopAutoRotation has returned on an engine whose auto-rotation could have
\* been started and never was
C24_Witness ==
    /\ Stopped
    /\ policy.RotationInterval > 0
    /\ tasks = << >>
    /\ ~autoRotate
    /\ clock > 0

\* C25: a scheduled RotateSecret that fails changes nothing of the working
\* set, is reported through NotifyError, and leaves its goroutine waiting for
\* the next tick; at a tick a goroutine that reads autoRotate = true goes on to
\* call RotateSecret, and a goroutine returns only at a tick at which it reads
\* autoRotate = false.
C25_FailedScheduledRotationGoesOn ==
    [][\A t \in DOMAIN tasks :
          /\ (tasks[t].pc = "rotate" /\ tasks'[t].pc # "rotate") =>
                /\ tasks'[t].pc = "waiting"
                /\ heap' = heap =>
                      /\ errorLog' # << >>
                      /\ Range(errorLog') \subseteq {ErrGenerate, ErrStore}
                      /\ UNCHANGED <<activeSecret, previousSecrets>>
                /\ heap' # heap => (activeSecret' = Len(heap') /\ activeSecret' # activeSecret)
          /\ (tasks[t].pc = "tick" /\ tasks'[t].pc # "tick" /\ autoRotate)
                => tasks'[t].pc = "rotate"
          /\ (tasks[t].pc # "exited" /\ tasks'[t].pc = "exited")
                => (tasks[t].pc = "tick" /\ ~autoRotate)]_vars

\* the one background goroutine failed to rotate at one tick and has rotated
\* at a later one
C25_Witness ==
    /\ Len(tasks) = 1
    /\ tasks[FollowedTask].pc = "waiting"
    /\ tasks[FollowedTask].run = "recovered"
    /\ activeSecret > 1
    /\ heap[activeSecret].CreatedAt = clock

\* the secrets of the working set
WorkingSet == Range(GetSecretsValue)

\* the secret r is past the grace period at this instant, as cleanupOldSecrets
\* measures it
PastGrace(r) ==
    policy.GracePeriod > 0 /\ ~(heap[r].CreatedAt > clock - policy.GracePeriod)

\* C26: once the engine is constructed, the active secret is replaced only
\* by a secret that is new, in a step that allocates it (a successful
\* rotation), and the replaced secret goes to previousSecrets unless cleanup
\* evicts it in that step; a secret of previousSecrets never becomes active;
\* a secret enters previousSecrets only from being active; and a secret leaves
\* the working set only in a successful rotation, and only when it is past the
\* grace period.
C26_LifecycleIsMonotone ==
    [][state = "ready" =>
         /\ activeSecret' # activeSecret =>
               /\ Len(heap') = Len(heap) + 1
               /\ activeSecret' = Len(heap')
               /\ activeSecret \in Range(previousSecrets') \/ PastGrace(activeSecret)
         /\ \A r \in Range(previousSecrets) : activeSecret' # r
         /\ \A r \in Range(previousSecrets') :
               r \in Range(previousSecrets) \/ (r = activeSecret /\ activeSecret' # r)
         /\ \A r \in WorkingSet \ WorkingSet' :
               /\ Len(heap') = Len(heap) + 1
               /\ PastGrace(r)]_vars

\* a rotation has retired the active secret to previousSecrets and evicted
\* another secret
C26_Witness ==
    /\ \E r \in Range(previousSecrets) : retiredAt[r] >= 0
    /\ \E e \in 1..Len(heap) : e \notin WorkingSet

\* C27: no step removes a value from the store; the store gains a value only
\* by the Store of the value generated in that step, one value at most per
\* generation; storage.GetAll is answered only to NewRotationManager, which is
\* also the only step in which the records it returned become known; and a
\* step that evicts secrets from previousSecrets leaves their values stored.
C27_StoreOnlyGrows ==
    [][/\ persisted \subseteq persisted'
       /\ getAll' # getAll => state = "new"
       /\ persisted' # persisted =>
             \/ state = "new" /\ getAll' = "records" /\ generated' = generated
             \/ generated' = generated + 1 /\ persisted' = persisted \cup {generated'}
       /\ generated' # generated =>
             (generated' = generated + 1 /\ persisted' \ persisted \subseteq {generated'})
       /\ \A r \in WorkingSet \ WorkingSet' :
             heap[r].Value \in persisted => heap[r].Value \in persisted']_vars

\* a rotation has evicted a secret whose value the store still holds
C27_Witness ==
    /\ RotateSucceeded
    /\ \E e \in 1..Len(heap) : e \notin WorkingSet /\ heap[e].Value \in persisted
    /\ heap[activeSecret].Value \in persisted

\* C28: with gracePeriod <= 0, an engine constructed from a store that gave
\* it no record holds every secret it has had: previousSecrets lists all the
\* secrets before the active one, newest first, one per successful rotation.
C28_NoEvictionWithoutGrace ==
    (state = "ready" /\ getAll \in {"empty", "error"} /\ policy.GracePeriod <= 0) =>
        /\ activeSecret = Len(heap)
        /\ previousSecrets = [i \in 1..(Len(heap) - 1) |-> Len(heap) - i]

\* a rotation at a later instant than the construction has kept the first secret
C28_Witness ==
    /\ RotateSucceeded
    /\ getAll = "empty"
    /\ policy.GracePeriod <= 0
    /\ Len(previousSecrets) = Len(heap) - 1
    /\ \E r \in Range(previousSecrets) : clock > heap[r].CreatedAt

\* C29: every secret of the working set, generated by the engine or
\* reconstructed from the store, has ID = generateSecretId(Value).
C29_IdDerivedFromValue ==
    \A r \in WorkingSet : heap[r].ID = generateSecretId(heap[r].Value)

\* the values this run has written to the store (the store's own are negative)
WrittenByRun == { v \in persisted : v > 0 }

\* C30: when a "Run once" execution has reported success, it has written
\* exactly one new secret version to the store, whatever the store held.
C30_RunOnceWritesOneVersion ==
    RotateSucceeded => Cardinality(WrittenByRun) = 1

\* C32: no ValidateToken call and RotateSecret call wait for each other: there
\* is no state in which a ValidateToken that holds the read lock waits in
\* GetSecrets' RLock for an announced writer while that RotateSecret waits in
\* Lock for the readers to leave.
C32_NoDeadlock ==
    ~ \E q \in Readers, p \in Rotators :
         /\ rd[q].pc = "val_getsecrets"
         /\ rot[p].pc = "lock"
         /\ mutex.pending
         /\ mutex.readers > 0

\* C33: in every state after NewRotationManager has returned an engine,
\* activeSecret is a secret with Active = true that is not in previousSecrets,
\* every secret of previousSecrets has Active = false, and no SignToken has
\* failed for lack of an active secret.
C33_WorkingSetInvariant ==
    state = "ready" =>
        /\ activeSecret # NULL
        /\ heap[activeSecret].Active
        /\ activeSecret \notin Range(previousSecrets)
        /\ \A r \in Range(previousSecrets) : ~heap[r].Active
        /\ tok.err # ErrNoActive

\* an engine loaded from two records has rotated, and SignToken has signed
\* with the new active secret
C33_Witness ==
    /\ RotateSucceeded
    /\ getAll = "records"
    /\ Len(previousSecrets) >= 2
    /\ rd[Followed].pc = "idle"
    /\ tok.signer = activeSecret
    /\ tok.alg \in HMACMethods

\* C34: cleanup never drops a secret whose age equals the grace period: a
\* secret of the working set with CreatedAt = now - gracePeriod is still in
\* the working set after any step.
C34_BoundaryAgeRetained ==
    [][\A r \in WorkingSet :
          (policy.GracePeriod > 0 /\ heap[r].CreatedAt = clock - policy.GracePeriod)
          => r \in WorkingSet']_vars

\* the secret r has been the active secret of this engine and has been replaced
Retired(r) == retiredAt[r] >= 0

\* a list of secrets is in retirement order: the secrets this engine has
\* retired come first, the one retired last (the one allocated last) before
\* the others, and after them the previous secrets loaded from the store
InRetirementOrder(secrets) ==
    \A i \in 1..Len(secrets), j \in 1..Len(secrets) :
        i < j => /\ Retired(secrets[j]) => Retired(secrets[i])
                 /\ (Retired(secrets[i]) /\ Retired(secrets[j])) => secrets[i] > secrets[j]

AllSucceeded ==
    \A p \in Rotators : rot[p].pc = "idle" /\ rot[p].returned /\ rot[p].err = NoErr

\* C36: with no eviction due, concurrent RotateSecret calls lose nothing: the
\* working set is every secret the engine has had, the newest first; every
\* value whose Store succeeded is the Value of a secret that is or has been
\* active, or of the one being promoted under the lock; and when two calls
\* have both succeeded, their two secrets are the active secret and the head
\* of previousSecrets, followed by the secret that was active before.
C36_ConcurrentRotationsLoseNothing ==
    /\ GetSecretsValue = [i \in 1..Len(heap) |-> Len(heap) + 1 - i]
    /\ \A v \in WrittenByRun :
          \/ \E r \in WorkingSet : heap[r].Value = v /\ (r = activeSecret \/ Retired(r))
          \/ \E p \in Rotators : rot[p].pc = "generated" /\ rot[p].err = NoErr
                                   /\ rot[p].newSecret.Value = v
    /\ (AllSucceeded /\ Len(heap) = 3) =>
          /\ { rot[p].secret : p \in Rotators } = {activeSecret, Head(previousSecrets)}
          /\ activeSecret # Head(previousSecrets)
          /\ previousSecrets = <<2, 1>>

\* the caller and the ticker have both rotated, the ticker first
C36_Witness ==
    /\ AllSucceeded
    /\ rot["ticker"].secret = 2
    /\ rot["caller"].secret = 3
    /\ activeSecret = 3
    /\ previousSecrets = <<2, 1>>
    /\ WrittenByRun = {1, 2}

\* C37: a rotation that fails makes one NotifyError call and no more: the
\* calls of NotifyError made for the last rotation are at most one.
C37_OneNotifyErrorPerFailure == Len(errorLog) <= 1

\* C31: NewRandomSecretGenerator returns an error for every size below 32 and
\* a generator for every size of 32 or more; every value Generate returns has
\* exactly the configured length, so the Value of a secret made by a rotation
\* is at least 32 bytes long.
C31_GeneratorSizeFloor ==
    /\ generator.made # "none" =>
         IF generator.sizeBytes < MinSecretSize
         THEN generator.made = "error" /\ generator.err = ErrSecretSize
         ELSE generator.made = "ok" /\ generator.err = NoErr
    /\ generator.made # "ok" => generator.value = 0 - 1
    /\ generator.value # 0 - 1 =>
         /\ generator.value = generator.sizeBytes
         /\ generator.value >= MinSecretSize
         /\ generator.generr = NoErr

\* Generate has returned a value from a generator made with exactly the floor
C31_Witness ==
    /\ generator.made = "ok"
    /\ generator.sizeBytes = MinSecretSize
    /\ generator.value = MinSecretSize

\* C38: in every state of the terminal program every key of selectedNotifiers
\* is an index of notifierChoices, and runRotation never indexes
\* notifierChoices out of range.
C38_SelectedNotifiersInRange ==
    /\ \A i \in model.selectedNotifiers : i \in 0..(Len(notifierChoices) - 1)
    /\ cmd.pc # "panicked"

\* every value of a config map is a non-empty string
AllEntered(config) == \A k \in DOMAIN config : config[k] # EmptyString

\* C39: whenever a caller (runRotation or checkStatus of the terminal program,
\* or a serverless handler) has built its config map from non-empty values,
\* the provider's Setup does not fail for a required key.
C39_SetupFindsItsKeys ==
    /\ (cmd.name \in {"runRotation", "checkStatus"} /\ cmd.pc # "running" /\ AllEntered(cmd.config))
         => cmd.err \notin ErrRequired
    /\ (fn.handler # "none" /\ AllEntered(fn.config)) => fn.err \notin ErrRequired
====
